---- MODULE Spec2Model ----
(***************************************************************************)
(* A model of the hashstore "bakery" core: Cake keys, their base-62 string *)
(* form, the stream hasher, CakeRack, ContentAddress, shard names,         *)
(* CakePath and portal resolution (resolve_cake_stack).                    *)
(*                                                                         *)
(* The module holds several state machines that share one set of           *)
(* variables:                                                              *)
(*   SpecMerge    CakeRack.merge run as a generator over two racks         *)
(*   SpecResolve  resolve_cake_stack chasing a portal relation             *)
(*   SpecCake     Cake construction, rendering, parsing and digest()       *)
(*   SpecOps      Cake.transform_portal, hash_bytes, __eq__ and __hash__   *)
(*   SpecAddr     ContentAddress construction and its string round trip    *)
(*   SpecShard    shard_name_int and is_it_shard                           *)
(*   SpecRack     CakeRack as a mutable mapping with cached views          *)
(*   SpecPath     CakePath.make_absolute                                   *)
(*   SpecWalk     CakePath.child and CakePath.parent                       *)
(*   SpecStream   process_stream as a loop over one stream                 *)
(*   SpecSsha     SaltedSha parsing and rendering                          *)
(*   SpecCache    one CakeRack, its mutators and cached accessors          *)
(*   SpecShardNum Cake.shard_num and Cake.shard_name                       *)
(*   SpecSess     HashSession.get, set and close on two threads            *)
(*   SpecResolveLive SpecResolve with the loop running on                  *)
(* Each specification leaves the variables of the others at their initial  *)
(* values.                                                                 *)
(***************************************************************************)
EXTENDS Integers, Sequences, FiniteSets, TLC

VARIABLES
    \* ---- CakeRack.merge
    rack_new,      \* self.store of the rack merge is called on
    rack_prev,     \* previous.store
    keys,          \* names the generator still has to visit (sorted)
    patches,       \* patches the running generator has yielded so far
    runs,          \* patch lists of the completed runs of merge
    mpc,           \* "idle" | "merging" | "merged"
    \* ---- resolve_cake_stack
    latest,        \* the rows read so far: <<portal, Portal.latest>> pairs
    cake,          \* local variable cake
    cake_stack,    \* local variable cake_stack
    lookups,       \* number of session.query(...).one() calls made
    rpc,           \* "idle" | "loop" | "returned" | "raised" | "norow" | "error"
    \* ---- Cake
    source,        \* the constructor call that was made and its arguments
    obj,           \* the Cake it built, Raised when it raised, None before
    text,          \* str(obj) once rendered, NoBytes before
    parsed,        \* Cake(text) once parsed back, None before
    memo,          \* the _digest attribute of obj: <<>> until digest() sets it
    digests,       \* values returned by successive obj.digest() calls
    \* ---- Cake methods called on one receiver
    recv,          \* the Cake the method is called on
    call,          \* the call made on recv, with its arguments
    ret,           \* what the call returned, Raised when it raised
    \* ---- ContentAddress
    addr_src,      \* the argument ContentAddress(...) was constructed from
    addr,          \* the ContentAddress built, Raised when it raised
    addr_back,     \* ContentAddress(str(addr)), None before
    addr_upper,    \* ContentAddress(str(addr).upper()), None before
    \* ---- shard names
    shard_call,    \* the call made: is_it_shard or shard_name_int
    shard_ret,     \* what it returned
    \* ---- CakeRack as a mutable mapping
    racks,         \* two CakeRacks: each its store (a dict, in insertion
                   \* order) and its caches
    rack_src,      \* per rack, the string it was parsed from when that is
                   \* all that was done to it, NoBytes otherwise
    rack_ops,      \* number of mutations made so far
    \* ---- CakePath
    path_self,     \* the CakePath make_absolute is called on
    path_base,     \* its argument current_cake_path
    path_ret,      \* what it returned, None before the call
    \* ---- CakePath.child and CakePath.parent
    walk_path,     \* the CakePath p that child and parent are called on
    walk_child,    \* p.child(n), None before the call
    walk_back,     \* p.child(n).parent(), Ref(None) when it returned None
    walk_cur,      \* p, p.parent(), p.parent().parent(), ...
    walk_steps,    \* number of parent() calls made from p
    \* ---- process_stream as a loop
    ps_fd,         \* the stream: its content, read position, closed flag
    ps_chunk_size, \* the argument chunk_size
    ps_inline,     \* local variable inline_data
    ps_hasher,     \* local variable hasher
    ps_length,     \* local variable length
    ps_reads,      \* what the fd.read calls returned, in order
    ps_calls,      \* the on_chunk calls made, in order: the chunk passed
                   \* and how many bytes the hasher had consumed by then
    ps_pc,         \* "idle" | "loop" | "returned" | "raised"
    ps_ret,        \* what process_stream returned, None before
    \* ---- SaltedSha
    ssha_src,      \* the string SaltedSha(s) is called with
    ssha,          \* the SaltedSha built, Raised when it raised, None before
    ssha_str,      \* str(ssha) once rendered, NoBytes before
    \* ---- HashSession
    sess_locals,   \* the objects the threading.local() calls created, in
                   \* order: per thread, the value of hash_ctx or Unset
    sess_last,     \* per thread, the last set or close call it made
    sess_ret,      \* per thread, what get() returned since that call
    sess_closed,   \* the sessions close() was called on
    \* ---- the caches of one CakeRack
    cache_rack,    \* the CakeRack: its store and its six caches
    cache_ret,     \* the last accessor called since the store changed and
                   \* the value it returned, None when there is none
    cache_ops      \* number of mutations made so far

mergeVars == <<rack_new, rack_prev, keys, patches, runs, mpc>>
resolveVars == <<latest, cake, cake_stack, lookups, rpc>>
cakeVars == <<source, obj, text, parsed, memo, digests>>
opVars == <<recv, call, ret>>
addrVars == <<addr_src, addr, addr_back, addr_upper>>
shardVars == <<shard_call, shard_ret>>
rackVars == <<racks, rack_src, rack_ops>>
pathVars == <<path_self, path_base, path_ret>>
walkVars == <<walk_path, walk_child, walk_back, walk_cur, walk_steps>>
\* the variables of the state machines of the end of the module
streamVars ==
    <<ps_fd, ps_chunk_size, ps_inline, ps_hasher, ps_length, ps_reads,
      ps_calls, ps_pc, ps_ret>>
sshaVars == <<ssha_src, ssha, ssha_str>>
sessVars == <<sess_locals, sess_last, sess_ret, sess_closed>>
cacheVars == <<cache_rack, cache_ret, cache_ops>>
lateVars == <<walkVars, streamVars, sshaVars, sessVars, cacheVars>>
vars ==
    <<mergeVars, resolveVars, cakeVars, opVars, addrVars, shardVars, rackVars,
      pathVars, lateVars>>

(***************************************************************************)
(* Bounds of the model.                                                    *)
(***************************************************************************)
\* names a rack may hold: 1..NumNames, ordered as the strings "o1" < "o2" < ...
NumNames == 2
\* how many times merge is run on the same pair of racks
MaxRuns == 2

(***************************************************************************)
(* CakeRole, CakeType                                                      *)
(***************************************************************************)
CakeRole == {"SYNAPSE", "NEURON"}

RoleCode(role) == IF role = "SYNAPSE" THEN 0 ELSE 1

CakeType ==
    {"INLINE", "SHA256", "PORTAL", "VTREE", "DMOUNT", "EVENT", "DAG_STATE",
     "JSON_WRAP"}

TypeCode(type) ==
    CASE type = "INLINE" -> 0
      [] type = "SHA256" -> 1
      [] type = "PORTAL" -> 2
      [] type = "VTREE" -> 3
      [] type = "DMOUNT" -> 4
      [] type = "EVENT" -> 5
      [] type = "DAG_STATE" -> 6
      [] type = "JSON_WRAP" -> 7

is_vtree(type) == type \in {"VTREE", "DAG_STATE"}

is_portal(type) == is_vtree(type) \/ type \in {"PORTAL", "DMOUNT"}

is_resolved(type) == type \in {"SHA256", "EVENT", "JSON_WRAP"}

inline_max_bytes == 32

(***************************************************************************)
(* Cake values.  A Cake is a record [type, role, data], data a sequence of *)
(* bytes.  None is Python's None.                                          *)
(***************************************************************************)
None == [type |-> "None"]

MkCake(type, role, data) == [type |-> type, role |-> role, data |-> data]

Repeat(b, n) == [i \in 1..n |-> b]

\* Cake.has_data
has_data(c) == c.type = "INLINE"

\* is_immutable that forgets the inline Cakes
is_immutable_resolved_only(c) == is_resolved(c.type)

\* Cake.is_immutable
is_immutable(c) == has_data(c) \/ is_resolved(c.type)

\* __eq__ that compares the data only
CakeEqDataOnly(c, other) ==
    IF other = None \/ c = None THEN FALSE ELSE c.data = other.data

\* Cake.__eq__ (other may be None: isinstance(other, Cake) is then false)
CakeEq(c, other) ==
    IF other = None \/ c = None
    THEN FALSE
    ELSE c.data = other.data /\ c.type = other.type /\ c.role = other.role

\* CakeNe with None taken to differ from nothing (a comparison guarded by
\* "both are set")
CakeNeGuarded(v, prev_v) ==
    v # None /\ prev_v # None /\ ~CakeEq(v, prev_v)

\* v != prev_v as Python evaluates it for Optional[Cake] operands
\* (None != None is False; anything else goes through Cake.__ne__)
CakeNe(v, prev_v) ==
    IF v = None /\ prev_v = None THEN FALSE ELSE ~CakeEq(v, prev_v)

(***************************************************************************)
(* Base-N codec (hashstore.utils.base_x).  A string is a sequence of       *)
(* characters; a character is its position in "0-9a-zA-Z" (0..61), the     *)
(* alphabet the doctests of Cake and ContentAddress show for base 62; the  *)
(* alphabet of base 36 is its first 36 characters.  Any other number       *)
(* stands for a character outside the alphabet.  Numbers too big for       *)
(* machine integers are kept as digit sequences, most significant digit    *)
(* first, and converted between bases by long division.                    *)
(***************************************************************************)
\* alphabet[d] of base N
AlphabetChar(N, d) == d

\* index of character ch in the alphabet of base N, -1 when it is not in it
AlphabetIndex(N, ch) == IF ch \in 0..(N - 1) THEN ch ELSE -1

\* s.lstrip(z): s without its leading run of z
RECURSIVE lstrip(_, _)
lstrip(s, z) ==
    IF s # <<>> /\ Head(s) = z THEN lstrip(Tail(s), z) ELSE s

\* long division of the digit sequence ds (base from) by `to`:
\* <<quotient digits, remainder>>
RECURSIVE DivMod(_, _, _, _, _, _)
DivMod(ds, from, to, i, carry, quot) ==
    IF i > Len(ds)
    THEN <<quot, carry>>
    ELSE LET cur == carry * from + ds[i]
         IN  DivMod(ds, from, to, i + 1, cur % to, Append(quot, cur \div to))

\* the number with digits ds in base `from`, as its digits in base `to`
\* (no digit at all for zero)
RECURSIVE ToBase(_, _, _, _)
ToBase(ds, from, to, acc) ==
    LET n == lstrip(ds, 0)
    IN  IF n = <<>>
        THEN acc
        ELSE LET qr == DivMod(n, from, to, 1, 0, <<>>)
             IN  ToBase(qr[1], from, to, <<qr[2]>> \o acc)

\* the result of a call that raised
Raised == [type |-> "Raised"]

\* None where bytes or a string are expected
NoBytes == <<-1>>

\* the result of a call that raised where bytes are expected
RaisedBytes == <<-2>>

\* base_x(N).encode(v): one alphabet[0] per leading zero byte, then the
\* digits of the remaining big-endian number
BaseEncode(N, v) ==
    LET rest == lstrip(v, 0)
        digits == ToBase(rest, 256, N, <<>>)
    IN  Repeat(AlphabetChar(N, 0), Len(v) - Len(rest))
            \o [i \in 1..Len(digits) |-> AlphabetChar(N, digits[i])]

\* base_x(N).decode(s): raises on a character outside the alphabet
BaseDecode(N, s) ==
    IF \E i \in 1..Len(s) : AlphabetIndex(N, s[i]) = -1
    THEN RaisedBytes
    ELSE LET rest == lstrip(s, AlphabetChar(N, 0))
             digits == [i \in 1..Len(rest) |-> AlphabetIndex(N, rest[i])]
         IN  Repeat(0, Len(s) - Len(rest)) \o ToBase(digits, N, 256, <<>>)

B62Encode(v) == BaseEncode(62, v)

B62Decode(s) == BaseDecode(62, s)

(***************************************************************************)
(* Hasher and process_stream.  SHA-256 itself is hashlib's; Sha256 stands  *)
(* for it: a fixed function from byte strings to 32 bytes that depends on  *)
(* every byte and its position.  A Hasher is the bytes it was fed.         *)
(***************************************************************************)
\* the sum of (b[k] + 1) * (w + k) for k in lo..hi, by halves
RECURSIVE SumRange(_, _, _, _)
SumRange(b, lo, hi, w) ==
    IF lo > hi
    THEN 0
    ELSE IF lo = hi
         THEN (b[lo] + 1) * (w + lo)
         ELSE LET mid == (lo + hi) \div 2
              IN  SumRange(b, lo, mid, w) + SumRange(b, mid + 1, hi, w)

WeightedSum(b, i, w) == SumRange(b, i, Len(b), w)

Sha256(b) ==
    LET s0 == WeightedSum(b, 1, 0)
        s1 == WeightedSum(b, 1, 7)
    IN  [i \in 1..32 |-> (s0 * i + s1 + 31 * i + Len(b)) % 256]

\* Hasher.update
HasherUpdate(hasher, b) == hasher \o b

\* Hasher.digest
HasherDigest(hasher) == Sha256(hasher)

\* Hasher(data)
Hasher(data) == IF data = NoBytes THEN <<>> ELSE HasherUpdate(<<>>, data)

\* chunk_size default of process_stream
DefaultChunkSize == 65355

Min(a, b) == IF a < b THEN a ELSE b

\* the while loop of process_stream over a stream that still holds `rest`:
\* <<digest, inline_data or NoBytes>>
RECURSIVE ProcessLoop(_, _, _, _, _)
ProcessLoop(rest, chunk_size, inline_data, hasher, length) ==
    LET chunk == SubSeq(rest, 1, Min(chunk_size, Len(rest)))
    IN  IF Len(chunk) <= 0
        THEN <<HasherDigest(hasher),
               IF length > inline_max_bytes THEN NoBytes ELSE inline_data>>
        ELSE LET len == length + Len(chunk)
             IN  ProcessLoop(SubSeq(rest, Len(chunk) + 1, Len(rest)),
                             chunk_size,
                             IF len <= inline_max_bytes
                             THEN inline_data \o chunk
                             ELSE inline_data,
                             HasherUpdate(hasher, chunk),
                             len)

\* process_stream(fd) for a stream with the given content
process_stream(content, chunk_size) ==
    ProcessLoop(content, chunk_size, <<>>, Hasher(NoBytes), 0)

(***************************************************************************)
(* Cake: construction, string form, digest                                 *)
(***************************************************************************)
\* CakeType.find_by_code / CakeRole.find_by_code: raise on an unknown code
TypeByCode(code) ==
    IF \E t \in CakeType : TypeCode(t) = code
    THEN CHOOSE t \in CakeType : TypeCode(t) = code
    ELSE "Raised"

RoleByCode(code) == IF code = 0 THEN "SYNAPSE" ELSE "NEURON"

\* _header with the type code not shifted
header_unshifted(type, role) ==
    LET t == TypeCode(type)
        r == RoleCode(role)
    IN  IF t % 2 = 1 THEN t ELSE t + r

\* _header: (type.code << 1) | role.code
header(type, role) == TypeCode(type) * 2 + RoleCode(role)

\* pack_in_bytes
pack_in_bytes(type, role, data_bytes) == <<header(type, role)>> \o data_bytes

\* the closing check of Cake.__init__
CheckSize(c) ==
    IF ~has_data(c) /\ Len(c.data) # 32 THEN Raised ELSE c

\* Cake(None, data=, type=, role=): type is not None
CakeFromParts(data, type, role) ==
    IF data = NoBytes \/ role = "None"
    THEN Raised
    ELSE CheckSize(MkCake(type, role, data))

\* Cake(s): type is None
CakeFromString(s) ==
    LET decoded == B62Decode(s)
    IN  IF decoded = RaisedBytes
        THEN Raised
        ELSE IF decoded = <<>>
             THEN Raised
             ELSE LET hdr == decoded[1]
                      type == TypeByCode(hdr \div 2)
                      role == RoleByCode(hdr % 2)
                  IN  IF type = "Raised"
                      THEN Raised
                      ELSE CheckSize(MkCake(type, role, Tail(decoded)))

\* from_digest_and_inline_data with < in place of <=
from_digest_and_inline_data_strict(digest, buffer, role) ==
    IF buffer # NoBytes /\ Len(buffer) < inline_max_bytes
    THEN CakeFromParts(buffer, "INLINE", role)
    ELSE CakeFromParts(digest, "SHA256", role)

\* Cake.from_digest_and_inline_data
from_digest_and_inline_data(digest, buffer, role) ==
    IF buffer # NoBytes /\ Len(buffer) <= inline_max_bytes
    THEN CakeFromParts(buffer, "INLINE", role)
    ELSE CakeFromParts(digest, "SHA256", role)

\* Cake.from_stream
from_stream(content, role) ==
    LET r == process_stream(content, DefaultChunkSize)
    IN  from_digest_and_inline_data(r[1], r[2], role)

\* Cake.from_bytes
from_bytes(b, role) == from_stream(b, role)

\* Cake.data
CakeData(c) == IF has_data(c) THEN c.data ELSE NoBytes

\* Cake.__str__
CakeStr(c) == B62Encode(pack_in_bytes(c.type, c.role, c.data))

\* the value digest() computes, with the inline payload returned unhashed
ComputeDigestUnhashed(c) == c.data

\* the value digest() computes when _digest is not set yet
ComputeDigest(c) ==
    IF has_data(c) THEN HasherDigest(Hasher(c.data)) ELSE c.data

(***************************************************************************)
(* CakeRack: the store is a function from the names it holds to a Cake or  *)
(* None.                                                                   *)
(***************************************************************************)
Names == 1..NumNames

\* the values the racks of the merge model hold: two SYNAPSE Cakes, two
\* NEURON Cakes (one of them differs from a SYNAPSE Cake in its role alone)
\* and None
RackValues ==
    {None,
     MkCake("INLINE", "SYNAPSE", <<97>>),
     MkCake("INLINE", "SYNAPSE", <<98>>),
     MkCake("INLINE", "NEURON", <<97>>),
     MkCake("SHA256", "NEURON", Repeat(7, 32))}

Racks == UNION {[S -> RackValues] : S \in SUBSET Names}

\* every order in which iterating a Python set or dict may list S
Orders(S) ==
    {o \in [1..Cardinality(S) -> S] :
        \A i, j \in 1..Cardinality(S) : i # j => o[i] # o[j]}

\* sorted(...) / list.sort()
sorted(s) == SortSeq(s, LAMBDA a, b : a < b)

\* CakeRack.keys
rack_keys(store) == sorted(CHOOSE o \in Orders(DOMAIN store) : TRUE)

\* is_neuron without the "v is None" alternative
is_neuron_role_only(store, k) == store[k] # None /\ store[k].role = "NEURON"

\* CakeRack.is_neuron
is_neuron(store, k) == store[k] = None \/ store[k].role = "NEURON"

\* MergeKey whose first branch yields an update to None for a removed name
MergeKeyUpdateNone(self, previous, k) ==
    IF k \notin DOMAIN self /\ k \in DOMAIN previous
    THEN << <<"update", k, None>> >>
    ELSE LET v == self[k]
             neuron == is_neuron(self, k)
         IN  IF k \in DOMAIN self /\ k \notin DOMAIN previous
             THEN << <<"update", k, v>> >>
             ELSE LET prev_v == previous[k]
                      prev_neuron == is_neuron(previous, k)
                  IN  IF CakeNe(v, prev_v)
                      THEN IF neuron /\ prev_neuron
                           THEN <<>>
                           ELSE IF prev_neuron = neuron
                                THEN << <<"update", k, v>> >>
                                ELSE << <<"delete", k, None>>,
                                        <<"update", k, v>> >>
                      ELSE <<>>

\* one iteration of the for loop of CakeRack.merge: the patches yielded for k
MergeKey(self, previous, k) ==
    IF k \notin DOMAIN self /\ k \in DOMAIN previous
    THEN << <<"delete", k, None>> >>
    ELSE LET v == self[k]
             neuron == is_neuron(self, k)
         IN  IF k \in DOMAIN self /\ k \notin DOMAIN previous
             THEN << <<"update", k, v>> >>
             ELSE LET prev_v == previous[k]
                      prev_neuron == is_neuron(previous, k)
                  IN  IF CakeNe(v, prev_v)
                      THEN IF neuron /\ prev_neuron
                           THEN <<>>
                           ELSE IF prev_neuron = neuron
                                THEN << <<"update", k, v>> >>
                                ELSE << <<"delete", k, None>>,
                                        <<"update", k, v>> >>
                      ELSE <<>>

\* the for loop run over list(set(...)) without sorted(...)
MergeOrderUnsorted(order) == order

\* the argument of the for loop: sorted(list(set(self.keys() + previous.keys())))
\* for one iteration order `order` of the intermediate set
MergeOrder(order) == sorted(order)

\* merge(...) is called: the generator fixes the names it will visit
MergeStart ==
    /\ mpc = "idle"
    /\ \E order \in Orders(DOMAIN rack_new \cup DOMAIN rack_prev) :
          keys' = MergeOrder(order)
    /\ patches' = <<>>
    /\ mpc' = "merging"
    /\ UNCHANGED <<rack_new, rack_prev, runs>>

\* the consumer pulls the generator through one name
MergeNext ==
    /\ mpc = "merging"
    /\ keys # <<>>
    /\ patches' = patches \o MergeKey(rack_new, rack_prev, Head(keys))
    /\ keys' = Tail(keys)
    /\ UNCHANGED <<rack_new, rack_prev, runs, mpc>>

\* the for loop is exhausted: the generator ends
MergeEnd ==
    /\ mpc = "merging"
    /\ keys = <<>>
    /\ runs' = Append(runs, patches)
    /\ mpc' = "merged"
    /\ UNCHANGED <<rack_new, rack_prev, keys, patches>>

\* merge is called once more on the same two racks
MergeAgain ==
    /\ mpc = "merged"
    /\ Len(runs) < MaxRuns
    /\ mpc' = "idle"
    /\ UNCHANGED <<rack_new, rack_prev, keys, patches, runs>>

InitMergeVars ==
    /\ rack_new \in Racks
    /\ rack_prev \in Racks
    /\ keys = <<>>
    /\ patches = <<>>
    /\ runs = <<>>
    /\ mpc = "idle"

IdleMergeVars ==
    /\ rack_new = <<>>
    /\ rack_prev = <<>>
    /\ keys = <<>>
    /\ patches = <<>>
    /\ runs = <<>>
    /\ mpc = "idle"

IdleResolveVars ==
    /\ latest = <<>>
    /\ cake = None
    /\ cake_stack = <<>>
    /\ lookups = 0
    /\ rpc = "idle"

IdleCakeVars ==
    /\ source = [kind |-> "none"]
    /\ obj = None
    /\ text = NoBytes
    /\ parsed = None
    /\ memo = <<>>
    /\ digests = <<>>

IdleOpVars ==
    /\ recv = None
    /\ call = [op |-> "none"]
    /\ ret = None

IdleAddrVars ==
    /\ addr_src = [kind |-> "none"]
    /\ addr = None
    /\ addr_back = None
    /\ addr_upper = None

IdleShardVars ==
    /\ shard_call = [op |-> "none"]
    /\ shard_ret = None

IdleRackVars ==
    /\ racks = <<>>
    /\ rack_src = <<>>
    /\ rack_ops = 0

IdlePathVars ==
    /\ path_self = None
    /\ path_base = None
    /\ path_ret = None

IdleWalkVars ==
    /\ walk_path = None
    /\ walk_child = None
    /\ walk_back = None
    /\ walk_cur = None
    /\ walk_steps = 0

IdleStreamVars ==
    /\ ps_fd = None
    /\ ps_chunk_size = 0
    /\ ps_inline = <<>>
    /\ ps_hasher = <<>>
    /\ ps_length = 0
    /\ ps_reads = <<>>
    /\ ps_calls = <<>>
    /\ ps_pc = "idle"
    /\ ps_ret = None

IdleSshaVars ==
    /\ ssha_src = NoBytes
    /\ ssha = None
    /\ ssha_str = NoBytes

IdleSessVars ==
    /\ sess_locals = <<>>
    /\ sess_last = <<>>
    /\ sess_ret = <<>>
    /\ sess_closed = {}

IdleCacheVars ==
    /\ cache_rack = None
    /\ cache_ret = None
    /\ cache_ops = 0

IdleLateVars ==
    IdleWalkVars /\ IdleStreamVars /\ IdleSshaVars /\ IdleSessVars
        /\ IdleCacheVars

\* the variables of the value types, which merge, resolve and the Cake
\* state machine leave alone
valueVars == <<opVars, addrVars, shardVars, rackVars, pathVars, lateVars>>

IdleValueVars ==
    IdleOpVars /\ IdleAddrVars /\ IdleShardVars /\ IdleRackVars
        /\ IdlePathVars /\ IdleLateVars

\* the variables of every state machine before those of the end of the
\* module
earlyVars ==
    <<mergeVars, resolveVars, cakeVars, opVars, addrVars, shardVars, rackVars,
      pathVars>>

IdleEarlyVars ==
    IdleMergeVars /\ IdleResolveVars /\ IdleCakeVars /\ IdleOpVars
        /\ IdleAddrVars /\ IdleShardVars /\ IdleRackVars /\ IdlePathVars

InitMerge == InitMergeVars /\ IdleResolveVars /\ IdleCakeVars /\ IdleValueVars

NextMerge ==
    \/ MergeStart /\ UNCHANGED <<resolveVars, cakeVars, valueVars>>
    \/ MergeNext /\ UNCHANGED <<resolveVars, cakeVars, valueVars>>
    \/ MergeEnd /\ UNCHANGED <<resolveVars, cakeVars, valueVars>>
    \/ MergeAgain /\ UNCHANGED <<resolveVars, cakeVars, valueVars>>

SpecMerge == InitMerge /\ [][NextMerge]_vars

(***************************************************************************)
(* resolve_cake_stack.  The Portal relation belongs to the storage layer;  *)
(* a portal is looked up at most once per call (a second visit raises      *)
(* before the query), so the relation is revealed lookup by lookup: latest *)
(* holds the rows read so far.  Portals that were never visited are        *)
(* interchangeable, so a lookup that leads to a new portal leads to the    *)
(* unvisited portal of least index.                                        *)
(***************************************************************************)
\* portals the relation may chain before the model stops offering new ones
MaxPortals == 12

\* len(cake_stack) > 10
MaxStack == 10

PortalTypes == <<"PORTAL", "VTREE", "DMOUNT", "DAG_STATE">>

\* the i-th portal Cake: 32 bytes of data, the type and role vary with i
Portal(i) ==
    MkCake(PortalTypes[(i % 4) + 1],
           IF (i \div 4) % 2 = 0 THEN "SYNAPSE" ELSE "NEURON",
           Repeat(i, 32))

Portals == {Portal(i) : i \in 1..MaxPortals}

\* immutable Cakes a portal may point at: one inline, one resolved
ImmutableCakes ==
    {MkCake("INLINE", "SYNAPSE", <<97>>),
     MkCake("SHA256", "NEURON", Repeat(7, 32)),
     MkCake("JSON_WRAP", "SYNAPSE", Repeat(9, 32))}

\* cake in cake_stack (list membership through Cake.__eq__)
InStack(c, stack) == \E i \in 1..Len(stack) : CakeEq(stack[i], c)

\* the unvisited portal of least index, if one is left
FreshPortals(stack, c) ==
    {Portal(i) : i \in {j \in 1..MaxPortals :
        /\ ~InStack(Portal(j), stack) /\ Portal(j) # c
        /\ \A h \in 1..(j - 1) : InStack(Portal(h), stack) \/ Portal(h) = c}}

\* what Portal.latest of portal c may hold: an immutable Cake, a portal
\* already on the stack (c itself included), a new portal, or NULL
LatestValues(stack, c) ==
    ImmutableCakes \cup {stack[i] : i \in 1..Len(stack)} \cup {c}
        \cup FreshPortals(stack, c) \cup {None}

\* the raise condition without the cake_loop test
MustRaiseLengthOnly(cake_loop, stack) == Len(stack) > MaxStack

\* the raise condition without the length test
MustRaiseLoopOnly(cake_loop, stack) == cake_loop

\* if cake_loop or len(cake_stack) > 10
MustRaise(cake_loop, stack) == cake_loop \/ Len(stack) > MaxStack

\* one iteration of the while loop, the portal query included
ResolveStep ==
    /\ rpc = "loop"
    /\ cake # None
    /\ LET cake_loop == InStack(cake, cake_stack)
           stack == Append(cake_stack, cake)
       IN  /\ cake_stack' = stack
           /\ IF is_immutable(cake)
              THEN rpc' = "returned" /\ UNCHANGED <<latest, cake, lookups>>
              ELSE IF MustRaise(cake_loop, stack)
                   THEN rpc' = "raised" /\ UNCHANGED <<latest, cake, lookups>>
                   ELSE /\ lookups' = lookups + 1
                        /\ \/ \* .one() finds the row of the portal
                              \E target \in LatestValues(cake_stack, cake) :
                                  /\ latest' = Append(latest, <<cake, target>>)
                                  /\ cake' = target
                                  /\ rpc' = "loop"
                           \/ \* .one() finds no row and raises
                              /\ rpc' = "norow"
                              /\ UNCHANGED <<latest, cake>>

\* the iteration that meets a NULL latest: None.is_immutable() raises
ResolveNone ==
    /\ rpc = "loop"
    /\ cake = None
    /\ cake_stack' = Append(cake_stack, cake)
    /\ rpc' = "error"
    /\ UNCHANGED <<latest, cake, lookups>>

InitResolveVars ==
    /\ latest = <<>>
    /\ cake \in ImmutableCakes \cup {Portal(1)}
    /\ cake_stack = <<>>
    /\ lookups = 0
    /\ rpc = "loop"

InitResolve ==
    IdleMergeVars /\ InitResolveVars /\ IdleCakeVars /\ IdleValueVars

NextResolve ==
    \/ ResolveStep /\ UNCHANGED <<mergeVars, cakeVars, valueVars>>
    \/ ResolveNone /\ UNCHANGED <<mergeVars, cakeVars, valueVars>>

SpecResolve == InitResolve /\ [][NextResolve]_vars

\* the call runs on: an iteration that can be made is made
SpecResolveLive == SpecResolve /\ WF_vars(NextResolve)

(***************************************************************************)
(* The Cake state machine: one Cake is requested through one of the three  *)
(* ways of building it, then rendered, parsed back and asked for its       *)
(* digest.                                                                 *)
(***************************************************************************)
\* payload lengths tried: 0..MaxShort and the lengths around inline_max_bytes
MaxShort == 3
\* lengths above inline_max_bytes tried
MaxOver == 2
\* leading zero bytes tried
MaxZeros == 2
\* header bytes tried when parsing (16 and above name no CakeType)
MaxHeader == 17
\* digest() calls made on one Cake
MaxDigestCalls == 2

SampleLens ==
    (0..MaxShort) \cup ((inline_max_bytes - 1)..(inline_max_bytes + MaxOver))

\* n bytes: z zero bytes, then bytes that vary with the position
Sample(n, z, b) ==
    [i \in 1..n |-> IF i <= z THEN 0 ELSE (b + 7 * (i - 1)) % 256]

DataSamples ==
    {Sample(n, z, b) : n \in SampleLens, z \in 0..MaxZeros, b \in {1, 97, 255}}

\* strings handed to Cake(s): the base-62 form of header byte + payload, the
\* empty string and a string with a character outside the alphabet
ParseStrings(headers) ==
    {B62Encode(<<h>> \o d) : h \in headers, d \in DataSamples}
        \cup {<<>>, <<5, 62>>}

IsCake(c) == c # None /\ c # Raised

\* Cake.from_bytes(b, role)
NewFromBytes ==
    /\ source.kind = "none"
    /\ \E b \in DataSamples, role \in CakeRole :
          /\ source' = [kind |-> "bytes", data |-> b, role |-> role]
          /\ obj' = from_bytes(b, role)
    /\ UNCHANGED <<text, parsed, memo, digests>>

\* Cake(None, data=, type=, role=)
NewFromParts ==
    /\ source.kind = "none"
    /\ \E data \in DataSamples \cup {NoBytes}, type \in CakeType,
          role \in CakeRole \cup {"None"} :
          /\ source' = [kind |-> "parts", data |-> data, type |-> type,
                        role |-> role]
          /\ obj' = CakeFromParts(data, type, role)
    /\ UNCHANGED <<text, parsed, memo, digests>>

\* Cake(s)
NewFromString ==
    /\ source.kind = "none"
    /\ \E s \in ParseStrings(0..MaxHeader) :
          /\ source' = [kind |-> "string", s |-> s]
          /\ obj' = CakeFromString(s)
    /\ UNCHANGED <<text, parsed, memo, digests>>

\* str(obj)
Str ==
    /\ IsCake(obj)
    /\ text = NoBytes
    /\ text' = CakeStr(obj)
    /\ UNCHANGED <<source, obj, parsed, memo, digests>>

\* Cake(str(obj))
Reparse ==
    /\ text # NoBytes
    /\ parsed = None
    /\ parsed' = CakeFromString(text)
    /\ UNCHANGED <<source, obj, text, memo, digests>>

\* obj.digest()
Digest ==
    /\ IsCake(obj)
    /\ Len(digests) < MaxDigestCalls
    /\ memo' = IF memo = <<>> THEN <<ComputeDigest(obj)>> ELSE memo
    /\ digests' = Append(digests, memo'[1])
    /\ UNCHANGED <<source, obj, text, parsed>>

InitCake ==
    IdleMergeVars /\ IdleResolveVars /\ IdleCakeVars /\ IdleValueVars

NextCake ==
    \/ NewFromBytes /\ UNCHANGED <<mergeVars, resolveVars, valueVars>>
    \/ NewFromParts /\ UNCHANGED <<mergeVars, resolveVars, valueVars>>
    \/ NewFromString /\ UNCHANGED <<mergeVars, resolveVars, valueVars>>
    \/ Str /\ UNCHANGED <<mergeVars, resolveVars, valueVars>>
    \/ Reparse /\ UNCHANGED <<mergeVars, resolveVars, valueVars>>
    \/ Digest /\ UNCHANGED <<mergeVars, resolveVars, valueVars>>

SpecCake == InitCake /\ [][NextCake]_vars

(***************************************************************************)
(* Claims about CakeRack.merge, checked under SpecMerge.                   *)
(***************************************************************************)
\* a patch list applied to a rack in emission order: delete removes the
\* name, update sets the name to the given Cake
RECURSIVE ApplyPatches(_, _)
ApplyPatches(store, ps) ==
    IF ps = <<>>
    THEN store
    ELSE LET p == Head(ps)
             k == p[2]
             next ==
                 IF p[1] = "delete"
                 THEN [n \in DOMAIN store \ {k} |-> store[n]]
                 ELSE [n \in DOMAIN store \cup {k} |->
                          IF n = k THEN p[3] ELSE store[n]]
         IN  ApplyPatches(next, Tail(ps))

UnionKeys == DOMAIN rack_new \cup DOMAIN rack_prev

InBoth(k) == k \in DOMAIN rack_new /\ k \in DOMAIN rack_prev

NeuronLike(v) == v = None \/ v.role = "NEURON"

\* the values at k differ (two Cakes are the same iff type, role and data agree)
Differ(k) == rack_new[k] # rack_prev[k]

\* k is in both racks with different values that are both neuron-like
Suppressed(k) ==
    InBoth(k) /\ Differ(k) /\ NeuronLike(rack_new[k]) /\ NeuronLike(rack_prev[k])

\* store agrees with rack_new at name k
AgreesWithNew(store, k) ==
    /\ k \in DOMAIN store <=> k \in DOMAIN rack_new
    /\ k \in DOMAIN rack_new => store[k] = rack_new[k]

\* the patches of one run that carry name k
PatchesOf(run, k) == SelectSeq(run, LAMBDA p : p[2] = k)

\* C1 as stated: applying the patches of new.merge(prev) to a copy of prev
\* yields new on the union of both key sets.
C1_MergeSoundAsStated ==
    \A r \in 1..Len(runs) : \A k \in UnionKeys :
        AgreesWithNew(ApplyPatches(rack_prev, runs[r]), k)

\* C1 amended: applying the patches of new.merge(prev) to a copy of prev
\* yields new on every name of the union, except the names held by both racks
\* with different values that are both neuron-like (None or role NEURON):
\* those keep the value of prev.
C1_MergeSoundAmended ==
    \A r \in 1..Len(runs) : \A k \in UnionKeys :
        LET result == ApplyPatches(rack_prev, runs[r])
        IN  IF Suppressed(k)
            THEN k \in DOMAIN result /\ result[k] = rack_prev[k]
            ELSE AgreesWithNew(result, k)

\* a finished merge that removed a name, replaced a Cake by delete + update
\* or by update alone, and left a suppressed name alone
C1_Witness ==
    /\ Len(runs) >= 1
    /\ \E k \in UnionKeys : Suppressed(k)
    /\ \E k \in UnionKeys :
          /\ InBoth(k) /\ Differ(k) /\ ~Suppressed(k)
          /\ PatchesOf(runs[1], k) # <<>>
          /\ AgreesWithNew(ApplyPatches(rack_prev, runs[1]), k)

\* C2: a name in exactly one rack gets exactly one patch, (delete, k, None)
\* when only prev holds it and (update, k, new[k]) when only new holds it
\* (also when new[k] is None); the names that carry a patch are the union of
\* the key sets minus the names that need none (equal values, or different
\* values that are both neuron-like).
C2_OneSidedNames ==
    \A r \in 1..Len(runs) :
        /\ \A k \in DOMAIN rack_prev \ DOMAIN rack_new :
              PatchesOf(runs[r], k) = << <<"delete", k, None>> >>
        /\ \A k \in DOMAIN rack_new \ DOMAIN rack_prev :
              PatchesOf(runs[r], k) = << <<"update", k, rack_new[k]>> >>
        /\ {runs[r][i][2] : i \in 1..Len(runs[r])}
              = {k \in UnionKeys : ~(InBoth(k) /\ (~Differ(k) \/ Suppressed(k)))}

\* a finished merge with a name only in prev and a name only in new whose
\* value is None
C2_Witness ==
    /\ Len(runs) >= 1
    /\ \E k \in DOMAIN rack_prev \ DOMAIN rack_new :
          PatchesOf(runs[1], k) # <<>>
    /\ \E k \in DOMAIN rack_new \ DOMAIN rack_prev :
          rack_new[k] = None /\ Len(PatchesOf(runs[1], k)) = 1

\* C3: for a name in both racks merge yields nothing when the values are
\* equal, nothing when they differ and both are neuron-like, (update, k,
\* new[k]) alone when they differ and neither is neuron-like, and (delete, k,
\* None) followed by (update, k, new[k]) when they differ and exactly one is
\* neuron-like.
C3_NamesInBoth ==
    \A r \in 1..Len(runs) : \A k \in DOMAIN rack_new \cap DOMAIN rack_prev :
        LET got == PatchesOf(runs[r], k)
            n == NeuronLike(rack_new[k])
            p == NeuronLike(rack_prev[k])
        IN  /\ ~Differ(k) => got = <<>>
            /\ Differ(k) /\ n /\ p => got = <<>>
            /\ Differ(k) /\ ~n /\ ~p => got = << <<"update", k, rack_new[k]>> >>
            /\ Differ(k) /\ n # p =>
                  got = << <<"delete", k, None>>, <<"update", k, rack_new[k]>> >>

\* a finished merge of two racks that share two names, one suppressed (None
\* against a NEURON Cake) and one replaced by delete + update
C3_Witness ==
    /\ Len(runs) >= 1
    /\ \E k \in UnionKeys :
          Suppressed(k) /\ rack_prev[k] = None /\ PatchesOf(runs[1], k) = <<>>
    /\ \E k \in UnionKeys :
          /\ InBoth(k) /\ Differ(k)
          /\ NeuronLike(rack_new[k]) # NeuronLike(rack_prev[k])
          /\ Len(PatchesOf(runs[1], k)) = 2

\* C4: the patches of merge come in ascending name order, with at most one
\* delete and at most one update per name and the delete before the update;
\* two runs of merge on the same racks yield the same sequence.
C4_PatchOrder ==
    /\ \A r \in 1..Len(runs) :
          LET run == runs[r]
          IN  /\ \A i, j \in 1..Len(run) : i < j => run[i][2] <= run[j][2]
              /\ \A i, j \in 1..Len(run) :
                    (i # j /\ run[i][2] = run[j][2]) => run[i][1] # run[j][1]
              /\ \A i, j \in 1..Len(run) :
                    (run[i][2] = run[j][2] /\ run[i][1] = "delete"
                        /\ run[j][1] = "update") => i < j
    /\ \A r, q \in 1..Len(runs) : runs[r] = runs[q]

\* two finished runs that patched at least two names, one of them by delete
\* followed by update
C4_Witness ==
    /\ Len(runs) >= 2
    /\ Len(runs[2]) >= 3
    /\ \E i \in 1..Len(runs[2]) - 1 :
          /\ runs[2][i][2] = runs[2][i + 1][2]
          /\ runs[2][i][1] = "delete"
    /\ Cardinality({runs[2][i][2] : i \in 1..Len(runs[2])}) >= 2

(***************************************************************************)
(* Claims about resolve_cake_stack, checked under SpecResolve.             *)
(***************************************************************************)
NoRepeat(stack) ==
    \A i, j \in 1..Len(stack) : i # j => stack[i] # stack[j]

\* immutable as the claims word it: INLINE or a resolved type
Immutable(c) == c.type \in {"INLINE", "SHA256", "EVENT", "JSON_WRAP"}

\* C5: resolution fails whenever a Cake comes up a second time in the chain
\* or an eleventh lookup would be needed before an immutable Cake is reached;
\* a returned chain holds no Cake twice and took at most 10 lookups.
C5_LoopProtection ==
    /\ [](rpc = "returned" =>
            /\ NoRepeat(cake_stack)
            /\ lookups <= 10
            /\ lookups = Len(cake_stack) - 1)
    /\ [][(/\ rpc = "loop"
           /\ cake # None
           /\ \/ \E i \in 1..Len(cake_stack) : cake_stack[i] = cake
              \/ lookups >= 10 /\ ~Immutable(cake))
          => rpc' = "raised" /\ lookups' = lookups]_vars

\* a call that raised on the eleventh portal of a chain of distinct portals
C5_Witness ==
    /\ rpc = "raised"
    /\ Len(cake_stack) = 11
    /\ NoRepeat(cake_stack)
    /\ lookups = 10

\* C29: for every portal relation, including cyclic relations and
\* arbitrarily long chains of distinct portals, resolve_cake_stack
\* terminates (by returning or by failing) after at most 10 portal lookups,
\* and the chain it has accumulated never holds more than 11 Cakes.
C29_Terminates ==
    /\ [](lookups <= 10 /\ Len(cake_stack) <= 11)
    /\ [][rpc = "loop" => Len(cake_stack') = Len(cake_stack) + 1]_vars
    /\ <>(rpc \in {"returned", "raised", "norow", "error"})

\* a call that returned after its tenth lookup, with a chain of ten portals
\* and the immutable Cake the last of them points at
C29_Witness ==
    /\ rpc = "returned"
    /\ lookups = 10
    /\ Len(cake_stack) = 11

\* C6: resolution stops at the first immutable Cake: an immutable Cake
\* resolves to the one-element chain of itself without a lookup, and every
\* returned chain c0..cn has ci not immutable and c(i+1) the looked-up
\* target of ci for i < n, and cn immutable.
C6_StopsAtImmutable ==
    /\ (rpc # "idle" /\ cake_stack # <<>> /\ Immutable(cake_stack[1])) =>
          /\ rpc = "returned"
          /\ Len(cake_stack) = 1
          /\ lookups = 0
    /\ (rpc = "loop" /\ cake_stack = <<>> /\ Immutable(cake)) => lookups = 0
    /\ rpc = "returned" =>
          /\ cake_stack # <<>>
          /\ Immutable(cake_stack[Len(cake_stack)])
          /\ Len(latest) = Len(cake_stack) - 1
          /\ \A i \in 1..(Len(cake_stack) - 1) :
                /\ ~Immutable(cake_stack[i])
                /\ latest[i] = <<cake_stack[i], cake_stack[i + 1]>>

\* a returned chain of three portals that ends in an inline Cake
C6_Witness ==
    /\ rpc = "returned"
    /\ Len(cake_stack) = 4
    /\ cake_stack[4].type = "INLINE"
    /\ lookups = 3

(***************************************************************************)
(* Claims about Cake, checked under SpecCake.                              *)
(***************************************************************************)
\* the size rule of a Cake: at most 32 bytes when INLINE, else exactly 32
SizeRule(c) ==
    IF c.type = "INLINE" THEN Len(c.data) <= 32 ELSE Len(c.data) = 32

\* C7: Cake string round-trip: for every Cake c (any type, any role, an
\* INLINE payload of 0..32 bytes, leading zero bytes included, otherwise 32
\* bytes of data), parsing str(c) yields a Cake with the type, role and data
\* of c.
C7_StringRoundTrip ==
    (IsCake(obj) /\ SizeRule(obj) /\ parsed # None) => parsed = obj

\* an INLINE SYNAPSE Cake (header byte 0) whose payload starts with zero
\* bytes, rendered and parsed back
C7_Witness ==
    /\ IsCake(obj)
    /\ obj.type = "INLINE" /\ obj.role = "SYNAPSE"
    /\ Len(obj.data) >= 3 /\ obj.data[1] = 0 /\ obj.data[2] = 0
    /\ Len(text) > 3
    /\ parsed = obj

\* C8: inline boundary: Cake.from_bytes(b) is INLINE with has_data() and
\* data() = b for every b of at most 32 bytes (the empty string included);
\* for 33 bytes and more it is SHA256, has_data() is false, data() is None
\* and the payload is the 32-byte digest of the stream.
C8_InlineBoundary ==
    source.kind = "bytes" =>
        LET b == source.data
        IN  /\ Len(b) <= 32 =>
                  /\ IsCake(obj) /\ obj.type = "INLINE"
                  /\ has_data(obj)
                  /\ CakeData(obj) = b
            /\ Len(b) >= 33 =>
                  /\ IsCake(obj) /\ obj.type = "SHA256"
                  /\ ~has_data(obj)
                  /\ CakeData(obj) = NoBytes
                  /\ Len(obj.data) = 32
                  /\ obj.data = Sha256(b)

\* from_bytes of exactly 32 bytes gave an INLINE Cake
C8_Witness ==
    /\ source.kind = "bytes"
    /\ Len(source.data) = 32
    /\ IsCake(obj) /\ obj.type = "INLINE" /\ obj.data = source.data

\* C9: digest agreement: every call of Cake.from_bytes(b).digest() returns
\* SHA-256(b), for an INLINE Cake and for a SHA256 Cake, the first call and
\* the repeated ones.
C9_DigestAgreement ==
    source.kind = "bytes" =>
        /\ \A i \in 1..Len(digests) : digests[i] = Sha256(source.data)
        /\ memo # <<>> => memo = <<Sha256(source.data)>>

\* two digest() calls on an INLINE Cake built from a non-empty byte string
C9_Witness ==
    /\ source.kind = "bytes"
    /\ IsCake(obj) /\ obj.type = "INLINE" /\ Len(obj.data) >= 2
    /\ Len(digests) >= 2

\* C10: every Cake that was constructed, parsed from a string or built from
\* parts, holds at most 32 bytes when INLINE and exactly 32 bytes otherwise.
C10_SizeInvariant ==
    /\ IsCake(obj) => SizeRule(obj)
    /\ IsCake(parsed) => SizeRule(parsed)

(***************************************************************************)
(* Cake methods called on one receiver: transform_portal, hash_bytes,      *)
(* __eq__ and __hash__.  A method that hands back an object is modelled by *)
(* Ref(value, same): same tells whether the object returned is the         *)
(* receiver itself.                                                        *)
(***************************************************************************)
Ref(value, same) == [value |-> value, same |-> same]

\* Cake.assert_portal: TRUE when it raises
assert_portal_raises(c) == ~is_portal(c.type)

\* Cake.transform_portal(role, type); "None" is an argument left out
transform_portal(c, role, type) ==
    IF assert_portal_raises(c)
    THEN Raised
    ELSE LET t == IF type = "None" THEN c.type ELSE type
             r == IF role = "None" THEN c.role ELSE role
         IN  IF t = c.type /\ r = c.role
             THEN Ref(c, TRUE)
             ELSE LET n == CakeFromParts(c.data, t, r)
                  IN  IF n = Raised THEN Raised ELSE Ref(n, FALSE)

\* hash_bytes that answers for every immutable Cake, the inline ones too
hash_bytes_immutable(c) ==
    IF ~is_immutable(c) THEN RaisedBytes ELSE c.data

\* Cake.hash_bytes
hash_bytes(c) ==
    IF ~is_resolved(c.type) THEN RaisedBytes ELSE c.data

\* Python's hash() of a bytes object: a fixed function of the bytes
PyHash(b) == (WeightedSum(b, 1, 3) * 31 + Len(b)) % 65521

\* Cake.__hash__: hash(self.digest())
CakeHash(c) == PyHash(ComputeDigest(c))

\* a byte string of the same length that differs in its first byte
AltData(d) ==
    IF d = <<>> THEN <<>> ELSE [d EXCEPT ![1] = (d[1] + 1) % 256]

\* the Cakes the constructor builds from the sampled payloads
OpCakes ==
    {CakeFromParts(d, t, r) : d \in DataSamples, t \in CakeType,
                              r \in CakeRole} \ {Raised}

\* what recv is compared with: the Cakes that share its data or differ from
\* it in the first byte, of every type and role, and None
Others(c) ==
    ({CakeFromParts(d, t, r) : d \in {c.data, AltData(c.data)},
                               t \in CakeType, r \in CakeRole} \ {Raised})
        \cup {None}

\* recv.transform_portal(role, type)
TransformPortal ==
    /\ call.op = "none"
    /\ \E role \in CakeRole \cup {"None"}, type \in CakeType \cup {"None"} :
          /\ call' = [op |-> "transform_portal", role |-> role, type |-> type]
          /\ ret' = transform_portal(recv, role, type)
    /\ UNCHANGED recv

\* recv.hash_bytes()
HashBytes ==
    /\ call.op = "none"
    /\ call' = [op |-> "hash_bytes"]
    /\ ret' = hash_bytes(recv)
    /\ UNCHANGED recv

\* recv == other
Eq ==
    /\ call.op = "none"
    /\ \E other \in Others(recv) :
          /\ call' = [op |-> "eq", other |-> other]
          /\ ret' = CakeEq(recv, other)
    /\ UNCHANGED recv

\* hash(recv), hash(other) for two Cakes
Hash ==
    /\ call.op = "none"
    /\ \E other \in Others(recv) \ {None} :
          /\ call' = [op |-> "hash", other |-> other]
          /\ ret' = <<CakeHash(recv), CakeHash(other)>>
    /\ UNCHANGED recv

InitOpVars ==
    /\ recv \in OpCakes
    /\ call = [op |-> "none"]
    /\ ret = None

InitOps ==
    /\ IdleLateVars
    /\ IdleMergeVars /\ IdleResolveVars /\ IdleCakeVars
    /\ InitOpVars
    /\ IdleAddrVars /\ IdleShardVars /\ IdleRackVars /\ IdlePathVars

NextOps ==
    \/ TransformPortal
          /\ UNCHANGED <<lateVars, mergeVars, resolveVars, cakeVars,
                         addrVars, shardVars, rackVars, pathVars>>
    \/ HashBytes
          /\ UNCHANGED <<lateVars, mergeVars, resolveVars, cakeVars,
                         addrVars, shardVars, rackVars, pathVars>>
    \/ Eq /\ UNCHANGED <<lateVars, mergeVars, resolveVars, cakeVars,
                         addrVars, shardVars, rackVars, pathVars>>
    \/ Hash
          /\ UNCHANGED <<lateVars, mergeVars, resolveVars, cakeVars,
                         addrVars, shardVars, rackVars, pathVars>>

SpecOps == InitOps /\ [][NextOps]_vars

(***************************************************************************)
(* Claims about the Cake methods, checked under SpecOps.                   *)
(***************************************************************************)
\* the type and the role a transform_portal call asks for
RequestedType == IF call.type = "None" THEN recv.type ELSE call.type

RequestedRole == IF call.role = "None" THEN recv.role ELSE call.role

\* C11: transform_portal(role, type) fails unless both the receiver's type
\* and the requested type are portal types; when it succeeds the result has
\* the receiver's 32 data bytes with the requested type and role (the
\* current ones by default), and it is the receiver itself when both equal
\* the current values.
C11_TransformPortal ==
    call.op = "transform_portal" =>
        /\ ~(is_portal(recv.type) /\ is_portal(RequestedType)) => ret = Raised
        /\ ret # Raised =>
              /\ ret.value.data = recv.data /\ Len(ret.value.data) = 32
              /\ ret.value.type = RequestedType
              /\ ret.value.role = RequestedRole
        /\ (ret # Raised /\ RequestedType = recv.type
                /\ RequestedRole = recv.role) => ret.same

\* C12: hash_bytes() returns the Cake's data exactly when its type is
\* resolved (SHA256, EVENT, JSON_WRAP) and fails for every other type: for
\* INLINE and for the portal types PORTAL, VTREE, DMOUNT, DAG_STATE.
C12_HashBytes ==
    call.op = "hash_bytes" =>
        /\ recv.type \in {"SHA256", "EVENT", "JSON_WRAP"} => ret = recv.data
        /\ recv.type \in {"INLINE", "PORTAL", "VTREE", "DMOUNT", "DAG_STATE"}
              => ret = RaisedBytes

\* hash_bytes() was called on an INLINE Cake with a payload and raised
C12_Witness ==
    /\ call.op = "hash_bytes"
    /\ recv.type = "INLINE" /\ Len(recv.data) >= 2
    /\ ret = RaisedBytes

\* C13: Cake equality is structural: two Cakes of the same type and role
\* are equal iff their data is equal, Cakes that differ in type or role are
\* never equal, and equal Cakes have the same in-memory hash, which is the
\* hash of digest().
C13_Equality ==
    /\ (call.op = "eq" /\ call.other # None) =>
          /\ (call.other.type = recv.type /\ call.other.role = recv.role)
                => (ret <=> call.other.data = recv.data)
          /\ (call.other.type # recv.type \/ call.other.role # recv.role)
                => ~ret
    /\ call.op = "hash" =>
          /\ CakeEq(recv, call.other) => ret[1] = ret[2]
          /\ ret[1] = PyHash(ComputeDigest(recv))

\* a Cake was compared with a Cake of the same data and role but another
\* type, and they were found different
C13_Witness ==
    /\ call.op = "eq" /\ call.other # None
    /\ call.other.data = recv.data /\ call.other.role = recv.role
    /\ call.other.type # recv.type
    /\ ret = FALSE

(***************************************************************************)
(* Shard functions and ContentAddress.  The characters 36..61 are the      *)
(* upper-case letters "A-Z" and 10..35 the lower-case letters "a-z", so    *)
(* str.lower and str.upper move a letter by 26 places.                     *)
(***************************************************************************)
MAX_NUM_OF_SHARDS == 8192

\* the result of a call that raised where a non-negative integer is expected
RaisedInt == -1

\* str.lower with the letters left as they are
LowerKeep(s) == s

\* str.lower
Lower(s) == [i \in 1..Len(s) |-> IF s[i] \in 36..61 THEN s[i] - 26 ELSE s[i]]

\* str.upper
Upper(s) == [i \in 1..Len(s) |-> IF s[i] \in 10..35 THEN s[i] + 26 ELSE s[i]]

\* the digits of n in base N, most significant first (none for zero)
RECURSIVE IntDigits(_, _, _)
IntDigits(N, n, acc) ==
    IF n = 0 THEN acc ELSE IntDigits(N, n \div N, <<n % N>> \o acc)

\* base_x(N).encode_int(n): alphabet[0] for zero
EncodeInt(N, n) ==
    IF n = 0
    THEN <<AlphabetChar(N, 0)>>
    ELSE LET digits == IntDigits(N, n, <<>>)
         IN  [i \in 1..Len(digits) |-> AlphabetChar(N, digits[i])]

\* the positional value of the first i characters of s in base N
RECURSIVE IntValue(_, _, _)
IntValue(N, s, i) ==
    IF i = 0 THEN 0 ELSE IntValue(N, s, i - 1) * N + AlphabetIndex(N, s[i])

\* base_x(N).decode_int(s): raises on a character outside the alphabet
DecodeInt(N, s) ==
    IF \E i \in 1..Len(s) : AlphabetIndex(N, s[i]) = -1
    THEN RaisedInt
    ELSE IntValue(N, s, Len(s))

B36Encode(v) == BaseEncode(36, v)

B36Decode(s) == BaseDecode(36, s)

shard_name_int(num) == EncodeInt(36, num)

decode_shard(name) == DecodeInt(36, name)

\* is_it_shard that does not lower-case the name
is_it_shard_as_given(shard_name, max_num) ==
    IF shard_name = <<>> \/ Len(shard_name) > 3
    THEN FALSE
    ELSE LET decoded == decode_shard(shard_name)
             shard_num_ == IF decoded = RaisedInt THEN -1 ELSE decoded
         IN  shard_num_ >= 0 /\ shard_num_ < max_num

\* is_it_shard: the local shard_num stays -1 when decode_shard raises
is_it_shard(shard_name, max_num) ==
    IF shard_name = <<>> \/ Len(shard_name) > 3
    THEN FALSE
    ELSE LET decoded == decode_shard(Lower(shard_name))
             shard_num_ == IF decoded = RaisedInt THEN -1 ELSE decoded
         IN  shard_num_ >= 0 /\ shard_num_ < max_num

\* shard_num(hash_bytes, base): b1, b2 = hash_bytes[:2] raises when there
\* are fewer than two bytes
shard_num(hash_bytes_, base) ==
    IF Len(hash_bytes_) < 2
    THEN RaisedInt
    ELSE (hash_bytes_[1] * 256 + hash_bytes_[2]) % base

\* the last line of ContentAddress.__init__, and the object it leaves
MkAddr(hash_bytes_, id) ==
    LET n == shard_num(hash_bytes_, MAX_NUM_OF_SHARDS)
    IN  IF n = RaisedInt
        THEN Raised
        ELSE [hash_bytes |-> hash_bytes_, id |-> id,
              shard_name |-> shard_name_int(n)]

\* ContentAddress(h) for a Hasher h
AddrFromHasher(hasher) ==
    LET hb == HasherDigest(hasher) IN MkAddr(hb, B36Encode(hb))

\* ContentAddress(h) for a Cake h, taking digest() in place of hash_bytes()
AddrFromCakeDigest(c) ==
    LET hb == ComputeDigest(c) IN MkAddr(hb, B36Encode(hb))

\* ContentAddress(h) for a Cake h
AddrFromCake(c) ==
    LET hb == hash_bytes(c)
    IN  IF hb = RaisedBytes THEN Raised ELSE MkAddr(hb, B36Encode(hb))

\* ContentAddress(h) for a string h
AddrFromString(s) ==
    LET id == Lower(s)
        hb == B36Decode(id)
    IN  IF hb = RaisedBytes THEN Raised ELSE MkAddr(hb, id)

\* ContentAddress.__str__
AddrStr(a) == a.id

\* ContentAddress.__eq__
AddrEq(a, other) == a.id = other.id

IsAddr(a) == a # None /\ a # Raised

(***************************************************************************)
(* The shard-name state machine: is_it_shard on a name, or on the name     *)
(* shard_name_int gave for a number.                                       *)
(***************************************************************************)
\* characters names are made of: digits, letters of both cases, "."
ShardChars == {0, 5, 6, 11, 20, 35, 37, 46, 61, 62}

\* longest name tried
MaxNameLen == 4

ShardNames ==
    UNION {[1..n -> ShardChars] : n \in 0..MaxNameLen}

\* values of max_num tried
ShardMax == {1, 36, 8000, MAX_NUM_OF_SHARDS, 46656}

\* is_it_shard(name, max_num)
IsItShard ==
    /\ shard_call.op = "none"
    /\ \E name \in ShardNames, max_num \in ShardMax :
          /\ shard_call' = [op |-> "is_it_shard", name |-> name,
                            max |-> max_num, n |-> -1]
          /\ shard_ret' = is_it_shard(name, max_num)

\* shard_name_int(n)
ShardNameInt ==
    /\ shard_call.op = "none"
    /\ \E n \in 0..(MAX_NUM_OF_SHARDS - 1) :
          /\ shard_call' = [op |-> "shard_name_int", n |-> n]
          /\ shard_ret' = shard_name_int(n)

\* is_it_shard(shard_name_int(n))
IsItShardOfName ==
    /\ shard_call.op = "shard_name_int"
    /\ shard_call' = [op |-> "is_it_shard", name |-> shard_ret,
                      max |-> MAX_NUM_OF_SHARDS, n |-> shard_call.n]
    /\ shard_ret' = is_it_shard(shard_ret, MAX_NUM_OF_SHARDS)

InitShard ==
    /\ IdleLateVars
    /\ IdleMergeVars /\ IdleResolveVars /\ IdleCakeVars
    /\ IdleOpVars /\ IdleAddrVars /\ IdleShardVars /\ IdleRackVars
    /\ IdlePathVars

NextShard ==
    \/ IsItShard
          /\ UNCHANGED <<lateVars, mergeVars, resolveVars, cakeVars, opVars,
                         addrVars, rackVars, pathVars>>
    \/ ShardNameInt
          /\ UNCHANGED <<lateVars, mergeVars, resolveVars, cakeVars, opVars,
                         addrVars, rackVars, pathVars>>
    \/ IsItShardOfName
          /\ UNCHANGED <<lateVars, mergeVars, resolveVars, cakeVars, opVars,
                         addrVars, rackVars, pathVars>>

SpecShard == InitShard /\ [][NextShard]_vars

(***************************************************************************)
(* The ContentAddress state machine: one address is built from a Hasher, a *)
(* Cake or a string, then built again from its string and from its         *)
(* upper-cased string.                                                     *)
(***************************************************************************)
Hashes32 == {d \in DataSamples : Len(d) = 32}

\* strings handed to ContentAddress(s): ids of 32-byte hashes in both
\* cases, strings that decode to fewer bytes, the empty string and a string
\* with a character outside the alphabet
AddrStrings(hashes) ==
    {B36Encode(h) : h \in hashes} \cup {Upper(B36Encode(h)) : h \in hashes}
        \cup {<<>>, <<0>>, <<0, 0>>, <<35, 35>>, <<35, 61, 35, 35>>, <<5, 62>>}

\* ContentAddress(Hasher(data))
NewAddrFromHasher ==
    /\ addr_src.kind = "none"
    /\ \E data \in DataSamples :
          /\ addr_src' = [kind |-> "hasher", data |-> data]
          /\ addr' = AddrFromHasher(Hasher(data))
    /\ UNCHANGED <<addr_back, addr_upper>>

\* ContentAddress(cake)
NewAddrFromCake ==
    /\ addr_src.kind = "none"
    /\ \E c \in OpCakes :
          /\ addr_src' = [kind |-> "cake", cake |-> c]
          /\ addr' = AddrFromCake(c)
    /\ UNCHANGED <<addr_back, addr_upper>>

\* ContentAddress(s)
NewAddrFromString ==
    /\ addr_src.kind = "none"
    /\ \E s \in AddrStrings(Hashes32) :
          /\ addr_src' = [kind |-> "string", s |-> s]
          /\ addr' = AddrFromString(s)
    /\ UNCHANGED <<addr_back, addr_upper>>

\* ContentAddress(str(addr))
AddrBack ==
    /\ IsAddr(addr)
    /\ addr_back = None
    /\ addr_back' = AddrFromString(AddrStr(addr))
    /\ UNCHANGED <<addr_src, addr, addr_upper>>

\* ContentAddress(str(addr).upper())
AddrUpper ==
    /\ IsAddr(addr)
    /\ addr_upper = None
    /\ addr_upper' = AddrFromString(Upper(AddrStr(addr)))
    /\ UNCHANGED <<addr_src, addr, addr_back>>

InitAddr ==
    /\ IdleLateVars
    /\ IdleMergeVars /\ IdleResolveVars /\ IdleCakeVars
    /\ IdleOpVars /\ IdleAddrVars /\ IdleShardVars /\ IdleRackVars
    /\ IdlePathVars

NextAddr ==
    \/ NewAddrFromHasher
          /\ UNCHANGED <<lateVars, mergeVars, resolveVars, cakeVars, opVars,
                         shardVars, rackVars, pathVars>>
    \/ NewAddrFromCake
          /\ UNCHANGED <<lateVars, mergeVars, resolveVars, cakeVars, opVars,
                         shardVars, rackVars, pathVars>>
    \/ NewAddrFromString
          /\ UNCHANGED <<lateVars, mergeVars, resolveVars, cakeVars, opVars,
                         shardVars, rackVars, pathVars>>
    \/ AddrBack
          /\ UNCHANGED <<lateVars, mergeVars, resolveVars, cakeVars, opVars,
                         shardVars, rackVars, pathVars>>
    \/ AddrUpper
          /\ UNCHANGED <<lateVars, mergeVars, resolveVars, cakeVars, opVars,
                         shardVars, rackVars, pathVars>>

SpecAddr == InitAddr /\ [][NextAddr]_vars

(***************************************************************************)
(* Claims about ContentAddress, checked under SpecAddr.                    *)
(***************************************************************************)
\* C14: ContentAddress round-trip: for every 32-byte hash h, hashes with
\* leading zero bytes included, ContentAddress(str(ContentAddress(h))) has
\* hash_bytes h, and the address built from the upper-cased id string equals
\* the one built from the lower-case id.
C14_AddressRoundTrip ==
    (IsAddr(addr) /\ Len(addr.hash_bytes) = 32) =>
        /\ addr_back # None =>
              IsAddr(addr_back) /\ addr_back.hash_bytes = addr.hash_bytes
        /\ addr_upper # None =>
              IsAddr(addr_upper) /\ addr_upper.hash_bytes = addr.hash_bytes
        /\ (addr_back # None /\ addr_upper # None) =>
              AddrEq(addr_upper, addr_back)

\* an address of a hash with two leading zero bytes whose id holds a
\* letter, built again from its id and from its upper-cased id
C14_Witness ==
    /\ IsAddr(addr) /\ Len(addr.hash_bytes) = 32
    /\ addr.hash_bytes[1] = 0 /\ addr.hash_bytes[2] = 0
    /\ Upper(addr.id) # addr.id
    /\ IsAddr(addr_back) /\ IsAddr(addr_upper)

\* C15: every ContentAddress that was constructed, from a Hasher, a Cake or
\* a string, stores a hash of exactly 32 bytes, an id that is the lower-case
\* base-36 encoding of the hash and the shard_name of shard_num(hash); a
\* string that does not decode to 32 bytes gives no address.
C15_AddressInvariant ==
    /\ IsAddr(addr) =>
          /\ Len(addr.hash_bytes) = 32
          /\ addr.id = Lower(B36Encode(addr.hash_bytes))
          /\ addr.shard_name
                = EncodeInt(36, (addr.hash_bytes[1] * 256 + addr.hash_bytes[2])
                                    % 8192)
    /\ addr_src.kind = "string" =>
          LET decoded == B36Decode(Lower(addr_src.s))
          IN  (decoded = RaisedBytes \/ Len(decoded) # 32) => addr = Raised

\* C16 as stated: a ContentAddress is derivable from every hash-bearing
\* Cake: from an INLINE Cake its hash is SHA-256 of the inline payload, from
\* a resolved Cake (SHA256, EVENT, JSON_WRAP) it is the Cake's 32-byte digest.
C16_AddressFromCakeAsStated ==
    addr_src.kind = "cake" =>
        LET c == addr_src.cake
        IN  /\ c.type = "INLINE" =>
                  IsAddr(addr) /\ addr.hash_bytes = Sha256(c.data)
            /\ c.type \in {"SHA256", "EVENT", "JSON_WRAP"} =>
                  /\ IsAddr(addr)
                  /\ addr.hash_bytes = ComputeDigest(c)
                  /\ Len(addr.hash_bytes) = 32

\* C16 amended: a ContentAddress is derivable from a resolved Cake only:
\* its hash is the Cake's 32-byte digest; from an INLINE Cake and from a
\* portal Cake the construction raises.
C16_AddressFromCakeAmended ==
    addr_src.kind = "cake" =>
        LET c == addr_src.cake
        IN  /\ c.type \in {"SHA256", "EVENT", "JSON_WRAP"} =>
                  /\ IsAddr(addr)
                  /\ addr.hash_bytes = ComputeDigest(c)
                  /\ Len(addr.hash_bytes) = 32
            /\ c.type \notin {"SHA256", "EVENT", "JSON_WRAP"} => addr = Raised

\* ContentAddress was called on an INLINE Cake with a payload and raised
C16_Witness ==
    /\ addr_src.kind = "cake"
    /\ addr_src.cake.type = "INLINE" /\ Len(addr_src.cake.data) >= 2
    /\ addr = Raised

(***************************************************************************)
(* Claims about shard names, checked under SpecShard.                      *)
(***************************************************************************)
\* the base-36 value of a lower-case name of one to three characters
NameValue(s) ==
    CASE Len(s) = 1 -> s[1]
      [] Len(s) = 2 -> s[1] * 36 + s[2]
      [] Len(s) = 3 -> s[1] * 1296 + s[2] * 36 + s[3]

\* every character of the lower-cased name is a base-36 digit
Decodable(name) == \A i \in 1..Len(name) : Lower(name)[i] \in 0..35

\* C17: is_it_shard(name, max) is true iff name has 1..3 characters and its
\* lower-cased base-36 decoding is an integer in [0, max); a name that does
\* not decode yields false; is_it_shard(shard_name_int(n)) is true for every
\* n in [0, 8192).
C17_IsItShard ==
    shard_call.op = "is_it_shard" =>
        /\ shard_ret \in BOOLEAN
        /\ shard_ret <=>
              /\ Len(shard_call.name) \in 1..3
              /\ Decodable(shard_call.name)
              /\ NameValue(Lower(shard_call.name)) \in 0..(shard_call.max - 1)
        /\ shard_call.n \in 0..8191 => shard_ret = TRUE

\* is_it_shard("5BK") with the default max is true
C17_Witness ==
    /\ shard_call.op = "is_it_shard"
    /\ shard_call.name = <<5, 37, 46>>
    /\ shard_call.max = 8192
    /\ shard_ret = TRUE

(***************************************************************************)
(* CakeRack as a mutable mapping.  The store is a Python dict: a sequence  *)
(* of <<name, value>> pairs in insertion order.  A name is a number k that *)
(* stands for the string "o<k>".  JSON text is a string whose characters   *)
(* are those of the base-62 alphabet and five punctuation characters.      *)
(***************************************************************************)
LBracket == 70
RBracket == 71
Comma == 72
Space == 73
Quote == 74

\* the string of name k
NameStr(k) == <<24, k>>

\* the name a string is, 0 when it is none of the names "o<k>"
NameOf(str) == IF Len(str) = 2 /\ str[1] = 24 THEN str[2] ELSE 0

\* the word null of JSON
JsonNull == <<23, 30, 21, 21>>

\* json.dumps of a string without characters to escape
JsonString(str) == <<Quote>> \o str \o <<Quote>>

\* ", ".join(items)
RECURSIVE JoinItems(_, _)
JoinItems(items, sep) ==
    IF Len(items) = 0
    THEN <<>>
    ELSE IF Len(items) = 1
         THEN items[1]
         ELSE items[1] \o sep \o JoinItems(Tail(items), sep)

\* json.dumps of a list whose items are already rendered
JsonList(items) ==
    <<LBracket>> \o JoinItems(items, <<Comma, Space>>) \o <<RBracket>>

\* k in self.store
StoreHas(store, k) == \E i \in 1..Len(store) : store[i][1] = k

\* self.store[k]
StoreGet(store, k) == store[CHOOSE i \in 1..Len(store) : store[i][1] = k][2]

\* self.store[k] = v: a new name goes last, a name already there keeps its
\* place
StoreSet(store, k, v) ==
    IF StoreHas(store, k)
    THEN [i \in 1..Len(store) |->
             IF store[i][1] = k THEN <<k, v>> ELSE store[i]]
    ELSE Append(store, <<k, v>>)

\* del self.store[k]
StoreDel(store, k) == SelectSeq(store, LAMBDA p : p[1] # k)

\* self.store.update(pairs)
RECURSIVE StoreUpdate(_, _)
StoreUpdate(store, pairs) ==
    IF Len(pairs) = 0
    THEN store
    ELSE StoreUpdate(StoreSet(store, pairs[1][1], pairs[1][2]), Tail(pairs))

\* list(self.store.keys())
dict_keys(store) == [i \in 1..Len(store) |-> store[i][1]]

\* keys() without the sort
keys_unsorted(store) == dict_keys(store)

\* CakeRack.keys on the dict
keys_sorted(store) == sorted(dict_keys(store))

\* CakeRack.get_cakes(names)
get_cakes(store, names) == [i \in 1..Len(names) |-> StoreGet(store, names[i])]

\* CakeRack.to_json
to_json(store) ==
    LET names == keys_sorted(store) IN <<names, get_cakes(store, names)>>

\* the Cakes the racks hold: the string of the first has 6 characters, of
\* the second 7, so that a rack of two names, one of them null, serializes
\* to 32 and to 33 bytes
RackCakes ==
    {MkCake("INLINE", "NEURON", <<97, 98, 99, 100>>),
     MkCake("INLINE", "NEURON", <<97, 98, 99, 100, 101>>)}

\* str(cake) of the Cakes the racks hold, computed once
RackCakeStr == [c \in RackCakes |-> CakeStr(c)]

\* str(rack): json.dumps of to_json, a Cake rendered as its string, None as
\* null
RackStr(store) ==
    LET j == to_json(store)
        names == [i \in 1..Len(j[1]) |-> JsonString(NameStr(j[1][i]))]
        cakes == [i \in 1..Len(j[2]) |->
                     IF j[2][i] = None
                     THEN JsonNull
                     ELSE JsonString(RackCakeStr[j[2][i]])]
    IN  JsonList(<<JsonList(names), JsonList(cakes)>>)

\* the UTF-8 byte of a character
CharByte(ch) ==
    CASE ch \in 0..9 -> 48 + ch
      [] ch \in 10..35 -> 87 + ch
      [] ch \in 36..61 -> 29 + ch
      [] ch = LBracket -> 91
      [] ch = RBracket -> 93
      [] ch = Comma -> 44
      [] ch = Space -> 32
      [] ch = Quote -> 34
      [] OTHER -> 63

\* utils.ensure_bytes(s): the UTF-8 encoding of s
ensure_bytes(str) == [i \in 1..Len(str) |-> CharByte(str[i])]

\* index of the first Quote of s at or after i, 0 when there is none
RECURSIVE FindQuote(_, _)
FindQuote(s, i) ==
    IF i > Len(s) THEN 0 ELSE IF s[i] = Quote THEN i ELSE FindQuote(s, i + 1)

\* the items of a JSON list of strings and nulls whose text starts at s[i]
\* (after its opening bracket): <<items, index after the closing bracket>>,
\* a null item being NoBytes; <<>> when the text is not such a list
RECURSIVE LoadItems(_, _, _)
LoadItems(s, i, acc) ==
    IF i > Len(s)
    THEN <<>>
    ELSE CASE s[i] = RBracket -> <<acc, i + 1>>
           [] s[i] = Comma \/ s[i] = Space -> LoadItems(s, i + 1, acc)
           [] s[i] = Quote ->
                LET j == FindQuote(s, i + 1)
                IN  IF j = 0
                    THEN <<>>
                    ELSE LoadItems(s, j + 1,
                                   Append(acc, SubSeq(s, i + 1, j - 1)))
           [] OTHER ->
                IF i + 3 <= Len(s) /\ SubSeq(s, i, i + 3) = JsonNull
                THEN LoadItems(s, i + 4, Append(acc, NoBytes))
                ELSE <<>>

\* names, cakes = json.loads(o) for the text of a list of two lists; <<>>
\* when it raises
JsonLoads(s) ==
    IF Len(s) < 2 \/ s[1] # LBracket \/ s[2] # LBracket
    THEN <<>>
    ELSE LET names == LoadItems(s, 3, <<>>)
         IN  IF names = <<>> \/ names[2] + 2 > Len(s)
                 \/ s[names[2]] # Comma \/ s[names[2] + 1] # Space
                 \/ s[names[2] + 2] # LBracket
             THEN <<>>
             ELSE LET cakes == LoadItems(s, names[2] + 3, <<>>)
                  IN  IF cakes = <<>> \/ cakes[2] # Len(s)
                          \/ s[cakes[2]] # RBracket
                      THEN <<>>
                      ELSE <<names[1], cakes[1]>>

\* ensure_it_or_none that takes no None
ensure_it_strict(v) == IF v = NoBytes THEN Raised ELSE CakeFromString(v)

\* Cake.ensure_it_or_none for a string or None
ensure_it_or_none(v) == IF v = NoBytes THEN None ELSE CakeFromString(v)

\* zip(names, cakes)
Zip(names, cakes) ==
    [i \in 1..Min(Len(names), Len(cakes)) |-> <<names[i], cakes[i]>>]

\* a CakeRack: the store and the caches _content, _in_bytes, _size, _cake
MkRack(store) ==
    [store |-> store, c_content |-> NoBytes, c_in_bytes |-> NoBytes,
     c_size |-> -1, c_cake |-> None, c_inverse |-> None, c_defined |-> None]

\* _clear_cached without the line of _defined
clear_cached_keep_defined(r) ==
    [MkRack(r.store) EXCEPT !.c_defined = r.c_defined]

\* CakeRack._clear_cached
clear_cached(r) == MkRack(r.store)

\* CakeRack.__setitem__
rack_setitem(r, k, v) ==
    [clear_cached(r) EXCEPT !.store = StoreSet(r.store, k, v)]

\* CakeRack.__delitem__: raises, the caches cleared, when k is not there
rack_delitem(r, k) ==
    [clear_cached(r) EXCEPT !.store = StoreDel(r.store, k)]

\* CakeRack.parse(o) for a string o: raises, the caches cleared, when the
\* text or one of the Cake strings does not parse
rack_parse(r, o) ==
    LET loaded == JsonLoads(o)
    IN  IF loaded = <<>>
        THEN clear_cached(r)
        ELSE LET cakes == [i \in 1..Len(loaded[2]) |->
                              ensure_it_or_none(loaded[2][i])]
                 names == [i \in 1..Len(loaded[1]) |-> NameOf(loaded[1][i])]
             IN  IF \E i \in 1..Len(cakes) : cakes[i] = Raised
                 THEN clear_cached(r)
                 ELSE [clear_cached(r) EXCEPT
                          !.store = StoreUpdate(r.store, Zip(names, cakes))]

\* CakeRack.content: the rack it leaves; the value returned is c_content
rack_content(r) ==
    IF r.c_content = NoBytes
    THEN [r EXCEPT !.c_content = RackStr(r.store)]
    ELSE r

\* CakeRack.in_bytes: the rack it leaves; the value returned is c_in_bytes
rack_in_bytes(r) ==
    IF r.c_in_bytes = NoBytes
    THEN LET r1 == rack_content(r)
         IN  [r1 EXCEPT !.c_in_bytes = ensure_bytes(r1.c_content)]
    ELSE r

\* CakeRack.size: the rack it leaves; the value returned is c_size
rack_size(r) ==
    IF r.c_size = -1
    THEN LET r1 == rack_in_bytes(r)
         IN  [r1 EXCEPT !.c_size = Len(r1.c_in_bytes)]
    ELSE r

\* CakeRack.cake: the rack it leaves; the value returned is c_cake
rack_cake(r) ==
    IF r.c_cake = None
    THEN LET r1 == rack_in_bytes(r)
         IN  [r1 EXCEPT !.c_cake =
                 from_digest_and_inline_data(
                     HasherDigest(Hasher(r1.c_in_bytes)), r1.c_in_bytes,
                     "NEURON")]
    ELSE r

\* a cached value that is not None
Some(v) == [value |-> v]

\* CakeRack.is_defined: the rack it leaves; the value returned is c_defined
rack_is_defined(r) ==
    IF r.c_defined = None
    THEN [r EXCEPT !.c_defined =
             Some(\A i \in 1..Len(r.store) : r.store[i][2] # None)]
    ELSE r

\* {v: k for k, v in self.store.items()}: of the names that hold v, the one
\* that comes last in the dict
InverseDict(store) ==
    [v \in {store[i][2] : i \in 1..Len(store)} |->
        store[CHOOSE i \in 1..Len(store) :
                /\ store[i][2] = v
                /\ \A j \in (i + 1)..Len(store) : store[j][2] # v][1]]

\* CakeRack.inverse: the rack it leaves; the value returned is c_inverse
rack_inverse(r) ==
    IF r.c_inverse = None
    THEN [r EXCEPT !.c_inverse = Some(InverseDict(r.store))]
    ELSE r

(***************************************************************************)
(* The CakeRack state machine: two racks, each changed by __setitem__,     *)
(* __delitem__ and parse of the other rack's string, and read by           *)
(* content(), in_bytes(), size() and cake().                               *)
(***************************************************************************)
\* mutations made on the two racks together
MaxRackOps == 4

RackIds == {1, 2}

RackNames == {1, 2}

\* cakes[k] = v
RackSetItem ==
    /\ rack_ops < MaxRackOps
    /\ \E x \in RackIds, k \in RackNames, v \in RackCakes \cup {None} :
          /\ racks' = [racks EXCEPT ![x] = rack_setitem(@, k, v)]
          /\ rack_src' = [rack_src EXCEPT ![x] = NoBytes]
    /\ rack_ops' = rack_ops + 1

\* del cakes[k]
RackDelItem ==
    /\ rack_ops < MaxRackOps
    /\ \E x \in RackIds, k \in RackNames :
          /\ racks' = [racks EXCEPT ![x] = rack_delitem(@, k)]
          /\ rack_src' = [rack_src EXCEPT ![x] = NoBytes]
    /\ rack_ops' = rack_ops + 1

\* racks[y].parse(str(racks[x])); on an empty rack it is what
\* CakeRack(str(racks[x])) does
RackParse ==
    /\ rack_ops < MaxRackOps
    /\ \E x \in RackIds : \E y \in RackIds \ {x} :
          LET o == RackStr(racks[x].store)
          IN  /\ racks' = [racks EXCEPT ![y] = rack_parse(@, o)]
              /\ rack_src' = [rack_src EXCEPT
                                 ![y] = IF Len(racks[y].store) = 0
                                        THEN o
                                        ELSE NoBytes]
    /\ rack_ops' = rack_ops + 1

\* cakes.content()
RackContent ==
    /\ \E x \in RackIds : racks' = [racks EXCEPT ![x] = rack_content(@)]
    /\ UNCHANGED <<rack_src, rack_ops>>

\* cakes.in_bytes()
RackInBytes ==
    /\ \E x \in RackIds : racks' = [racks EXCEPT ![x] = rack_in_bytes(@)]
    /\ UNCHANGED <<rack_src, rack_ops>>

\* cakes.size()
RackSize ==
    /\ \E x \in RackIds : racks' = [racks EXCEPT ![x] = rack_size(@)]
    /\ UNCHANGED <<rack_src, rack_ops>>

\* cakes.cake()
RackCake ==
    /\ \E x \in RackIds : racks' = [racks EXCEPT ![x] = rack_cake(@)]
    /\ UNCHANGED <<rack_src, rack_ops>>

InitRackVars ==
    /\ racks = [x \in RackIds |-> MkRack(<<>>)]
    /\ rack_src = [x \in RackIds |-> NoBytes]
    /\ rack_ops = 0

InitRack ==
    /\ IdleLateVars
    /\ IdleMergeVars /\ IdleResolveVars /\ IdleCakeVars
    /\ IdleOpVars /\ IdleAddrVars /\ IdleShardVars
    /\ InitRackVars
    /\ IdlePathVars

NextRack ==
    \/ RackSetItem
          /\ UNCHANGED <<lateVars, mergeVars, resolveVars, cakeVars, opVars,
                         addrVars, shardVars, pathVars>>
    \/ RackDelItem
          /\ UNCHANGED <<lateVars, mergeVars, resolveVars, cakeVars, opVars,
                         addrVars, shardVars, pathVars>>
    \/ RackParse
          /\ UNCHANGED <<lateVars, mergeVars, resolveVars, cakeVars, opVars,
                         addrVars, shardVars, pathVars>>
    \/ RackContent
          /\ UNCHANGED <<lateVars, mergeVars, resolveVars, cakeVars, opVars,
                         addrVars, shardVars, pathVars>>
    \/ RackInBytes
          /\ UNCHANGED <<lateVars, mergeVars, resolveVars, cakeVars, opVars,
                         addrVars, shardVars, pathVars>>
    \/ RackSize
          /\ UNCHANGED <<lateVars, mergeVars, resolveVars, cakeVars, opVars,
                         addrVars, shardVars, pathVars>>
    \/ RackCake
          /\ UNCHANGED <<lateVars, mergeVars, resolveVars, cakeVars, opVars,
                         addrVars, shardVars, pathVars>>

SpecRack == InitRack /\ [][NextRack]_vars

(***************************************************************************)
(* Claims about CakeRack as a mapping, checked under SpecRack.             *)
(***************************************************************************)
\* the name->Cake mapping a rack holds
RackMapping(r) == {r.store[i] : i \in 1..Len(r.store)}

\* what content(), size() and cake() return when called on r now
ContentOf(r) == rack_content(r).c_content

SizeOf(r) == rack_size(r).c_size

CakeOf(r) == rack_cake(r).c_cake

\* content() of r lists the names in ascending order, each Cake (or null)
\* at the position of its name
SortedContent(r) ==
    LET loaded == JsonLoads(ContentOf(r))
    IN  /\ Len(loaded) = 2
        /\ Len(loaded[1]) = Len(r.store)
        /\ Len(loaded[2]) = Len(r.store)
        /\ \A i \in 1..Len(loaded[1]) :
              /\ StoreHas(r.store, NameOf(loaded[1][i]))
              /\ loaded[1][i] = NameStr(NameOf(loaded[1][i]))
              /\ \A j \in 1..(i - 1) :
                    NameOf(loaded[1][j]) < NameOf(loaded[1][i])
              /\ LET v == StoreGet(r.store, NameOf(loaded[1][i]))
                 IN  loaded[2][i] = IF v = None THEN NoBytes ELSE CakeStr(v)

\* C18: the canonical form of a CakeRack does not depend on insertion
\* order: content() lists the names in ascending order with each Cake (or
\* null) at the position of its name, and two racks that hold the same
\* name->Cake mapping, reached by any sequence of inserts, overwrites and
\* deletes, have the same content(), size() and cake().
C18_CanonicalForm ==
    /\ \A x \in RackIds : SortedContent(racks[x])
    /\ RackMapping(racks[1]) = RackMapping(racks[2]) =>
          /\ ContentOf(racks[1]) = ContentOf(racks[2])
          /\ SizeOf(racks[1]) = SizeOf(racks[2])
          /\ CakeOf(racks[1]) = CakeOf(racks[2])

\* two racks of two names, filled in opposite orders, hold the same mapping
\* and both have answered cake()
C18_Witness ==
    /\ Len(racks[1].store) = 2
    /\ RackMapping(racks[1]) = RackMapping(racks[2])
    /\ dict_keys(racks[1].store) # dict_keys(racks[2].store)
    /\ racks[1].c_cake # None /\ racks[2].c_cake # None
    /\ racks[1].c_content = racks[2].c_content

\* C19: rack self-address is stable under re-serialization: for every rack,
\* racks with null values and the empty rack included, parsing str(rack)
\* into a fresh CakeRack yields a rack with the same name->Cake mapping and
\* the same cake(), which has role NEURON and is INLINE exactly when the
\* serialization is at most 32 bytes.
C19_RackSelfAddress ==
    \A x \in RackIds : \A y \in RackIds \ {x} :
        (rack_src[y] # NoBytes /\ rack_src[y] = RackStr(racks[x].store)) =>
            /\ RackMapping(racks[y]) = RackMapping(racks[x])
            /\ CakeOf(racks[y]) = CakeOf(racks[x])
            /\ CakeOf(racks[y]).role = "NEURON"
            /\ CakeOf(racks[y]).type \in {"INLINE", "SHA256"}
            /\ CakeOf(racks[y]).type = "INLINE"
                  <=> Len(ensure_bytes(rack_src[y])) <= 32

\* a rack with a null value whose string has exactly 32 bytes was parsed
\* into an empty rack, which then answered cake() with an INLINE Cake
C19_Witness ==
    \E x \in RackIds : \E y \in RackIds \ {x} :
        /\ rack_src[y] # NoBytes
        /\ rack_src[y] = RackStr(racks[x].store)
        /\ Len(rack_src[y]) = 32
        /\ \E i \in 1..Len(racks[x].store) : racks[x].store[i][2] = None
        /\ racks[y].c_cake # None
        /\ racks[y].c_cake.type = "INLINE"

(***************************************************************************)
(* CakePath: a root (a Cake, None for a relative path) and a list of       *)
(* segments, each a string.                                                *)
(***************************************************************************)
\* the character "/"
Slash == 75

\* CakePath(None, _root=root, _path=path)
MkPath(root, path) == [root |-> root, path |-> path]

\* CakePath.relative
relative(p) == p.root = None

\* CakePath.path_join: '/'.join(self.path)
path_join(p) == JoinItems(p.path, <<Slash>>)

\* CakePath.__str__
CakePathStr(p) ==
    IF relative(p)
    THEN path_join(p)
    ELSE <<Slash>> \o CakeStr(p.root) \o <<Slash>> \o path_join(p)

\* make_absolute that extends the list of current_cake_path itself
make_absolute_in_place(self, current_cake_path) ==
    IF relative(self)
    THEN LET path == current_cake_path.path \o self.path
         IN  <<Ref(MkPath(current_cake_path.root, path), FALSE), self,
               [current_cake_path EXCEPT !.path = path]>>
    ELSE <<Ref(self, TRUE), self, current_cake_path>>

\* CakePath.make_absolute: <<what it returns, self and current_cake_path as
\* it leaves them>>; list(current_cake_path.path) is a copy, which extend
\* changes
make_absolute(self, current_cake_path) ==
    IF relative(self)
    THEN LET path == current_cake_path.path \o self.path
         IN  <<Ref(MkPath(current_cake_path.root, path), FALSE), self,
               current_cake_path>>
    ELSE <<Ref(self, TRUE), self, current_cake_path>>

(***************************************************************************)
(* The CakePath state machine: make_absolute called on a path with a base. *)
(***************************************************************************)
\* segments a path may have
MaxSegs == 2

\* the segments "y" and "z"
Segments == {<<34>>, <<35>>}

\* the roots of the paths: none, an inline NEURON Cake, a SHA256 Cake
PathRoots ==
    {None,
     MkCake("INLINE", "NEURON", <<97, 98>>),
     MkCake("SHA256", "NEURON", Repeat(7, 32))}

Paths ==
    {MkPath(root, path) :
        root \in PathRoots,
        path \in UNION {[1..n -> Segments] : n \in 0..MaxSegs}}

\* path_self.make_absolute(path_base)
MakeAbsolute ==
    /\ path_ret = None
    /\ LET r == make_absolute(path_self, path_base)
       IN  /\ path_ret' = r[1]
           /\ path_self' = r[2]
           /\ path_base' = r[3]

InitPathVars ==
    /\ path_self \in Paths
    /\ path_base \in Paths
    /\ path_ret = None

InitPath ==
    /\ IdleLateVars
    /\ IdleMergeVars /\ IdleResolveVars /\ IdleCakeVars
    /\ IdleOpVars /\ IdleAddrVars /\ IdleShardVars /\ IdleRackVars
    /\ InitPathVars

NextPath ==
    \/ MakeAbsolute
          /\ UNCHANGED <<lateVars, mergeVars, resolveVars, cakeVars, opVars,
                         addrVars, shardVars, rackVars>>

SpecPath == InitPath /\ [][NextPath]_vars

(***************************************************************************)
(* Claims about CakePath, checked under SpecPath.                          *)
(***************************************************************************)
\* "/" + str(root) + "/" + the segments joined by "/"
AbsoluteStr(root, segments) ==
    <<Slash>> \o CakeStr(root) \o <<Slash>> \o JoinItems(segments, <<Slash>>)

\* make_absolute left the receiver and the base as they were
PathsKept ==
    [][path_ret' # path_ret => path_self' = path_self /\ path_base' = path_base
      ]_vars

\* C20 as stated: make_absolute(base) returns the receiver itself when the
\* receiver is absolute; when it is relative it returns, for every base, a
\* new absolute path whose root is base.root and whose segments are
\* base.segments followed by the receiver's, so that its string is
\* "/" + str(base.root) + "/" + the joined segments; neither the receiver
\* nor base is modified.
C20_MakeAbsoluteAsStated ==
    /\ [](path_ret # None =>
          /\ ~relative(path_self) =>
                path_ret.same /\ path_ret.value = path_self
          /\ relative(path_self) =>
                /\ ~path_ret.same
                /\ ~relative(path_ret.value)
                /\ path_ret.value.root = path_base.root
                /\ path_ret.value.path = path_base.path \o path_self.path
                /\ CakePathStr(path_ret.value)
                      = AbsoluteStr(path_base.root,
                                    path_base.path \o path_self.path))
    /\ PathsKept

\* C20 amended: make_absolute(base) returns the receiver itself when the
\* receiver is absolute; when it is relative it returns a new path whose
\* root is base.root and whose segments are base.segments followed by the
\* receiver's.  That path is absolute, with the string "/" + str(base.root)
\* + "/" + the joined segments, when base is absolute; when base is relative
\* it is relative and its string is the joined segments alone.  Neither the
\* receiver nor base is modified.
C20_MakeAbsoluteAmended ==
    /\ [](path_ret # None =>
          /\ ~relative(path_self) =>
                path_ret.same /\ path_ret.value = path_self
          /\ relative(path_self) =>
                /\ ~path_ret.same
                /\ path_ret.value.root = path_base.root
                /\ path_ret.value.path = path_base.path \o path_self.path
                /\ ~relative(path_base) =>
                      /\ ~relative(path_ret.value)
                      /\ CakePathStr(path_ret.value)
                            = AbsoluteStr(path_base.root,
                                          path_base.path \o path_self.path)
                /\ relative(path_base) =>
                      /\ relative(path_ret.value)
                      /\ CakePathStr(path_ret.value)
                            = JoinItems(path_base.path \o path_self.path,
                                        <<Slash>>))
    /\ PathsKept

\* a relative path of two segments was made absolute with an absolute base
\* of one segment
C20_Witness ==
    /\ path_ret # None
    /\ relative(path_self) /\ Len(path_self.path) = 2
    /\ ~relative(path_base) /\ Len(path_base.path) = 1
    /\ Len(path_ret.value.path) = 3
    /\ ~relative(path_ret.value)

(***************************************************************************)
(* CakePath.child and CakePath.parent                                      *)
(***************************************************************************)
\* child that appends to the list of the receiver itself
child_in_place(self, name) ==
    LET path == Append(self.path, name)
    IN  <<MkPath(self.root, path), [self EXCEPT !.path = path]>>

\* CakePath.child: <<the path it returns, self as it leaves it>>;
\* list(self.path) is a copy, which append changes
child(self, name) ==
    LET path == Append(self.path, name)
    IN  <<MkPath(self.root, path), self>>

\* parent that does not look at relative()
parent_of_any(self) ==
    IF Len(self.path) = 0
    THEN None
    ELSE MkPath(self.root, SubSeq(self.path, 1, Len(self.path) - 1))

\* CakePath.parent
parent(self) ==
    IF relative(self) \/ Len(self.path) = 0
    THEN None
    ELSE MkPath(self.root, SubSeq(self.path, 1, Len(self.path) - 1))

(***************************************************************************)
(* The state machine of child and parent: from one path p, p.child(n) and  *)
(* its parent on one side, the chain p.parent().parent()... on the other.  *)
(***************************************************************************)
\* walk_path.child(n)
Child ==
    /\ walk_child = None
    /\ \E n \in Segments :
          LET r == child(walk_path, n)
          IN  /\ walk_child' = r[1]
              /\ walk_path' = r[2]
    /\ UNCHANGED <<walk_back, walk_cur, walk_steps>>

\* walk_child.parent()
ChildParent ==
    /\ walk_child # None
    /\ walk_back = None
    /\ walk_back' = Ref(parent(walk_child), FALSE)
    /\ UNCHANGED <<walk_path, walk_child, walk_cur, walk_steps>>

\* walk_cur = walk_cur.parent()
Parent ==
    /\ walk_cur # None
    /\ walk_cur' = parent(walk_cur)
    /\ walk_steps' = walk_steps + 1
    /\ UNCHANGED <<walk_path, walk_child, walk_back>>

InitWalkVars ==
    /\ walk_path \in Paths
    /\ walk_child = None
    /\ walk_back = None
    /\ walk_cur = walk_path
    /\ walk_steps = 0

InitWalk ==
    IdleEarlyVars /\ InitWalkVars /\ IdleStreamVars /\ IdleSshaVars
        /\ IdleSessVars /\ IdleCacheVars

NextWalk ==
    \/ Child /\ UNCHANGED <<earlyVars, streamVars, sshaVars, sessVars,
                            cacheVars>>
    \/ ChildParent /\ UNCHANGED <<earlyVars, streamVars, sshaVars, sessVars,
                                  cacheVars>>
    \/ Parent /\ UNCHANGED <<earlyVars, streamVars, sshaVars, sessVars,
                             cacheVars>>

SpecWalk == InitWalk /\ [][NextWalk]_vars

(***************************************************************************)
(* Claims about child and parent, checked under SpecWalk.                  *)
(***************************************************************************)
\* the path of the first n segments of p, with the root of p
Ancestor(p, n) == MkPath(p.root, SubSeq(p.path, 1, n))

\* child() left the receiver as it was
ChildKeepsReceiver ==
    [][walk_child' # walk_child => walk_path' = walk_path]_vars

\* C21: parent() drops the last segment and keeps the root, and returns
\* nothing exactly when the path is relative or has no segments; hence for
\* every absolute path p and name n, p.child(n).parent() has the same root
\* and segments as p, p itself is unchanged by child(), and repeated
\* parent() from an absolute path with k segments reaches the root after k
\* steps and nothing on step k+1.
C21_ParentChild ==
    /\ [](LET k == Len(walk_path.path)
          IN  /\ walk_steps <= k + 1
              /\ relative(walk_path) /\ walk_steps > 0 =>
                    walk_steps = 1 /\ walk_cur = None
              /\ ~relative(walk_path) /\ walk_steps <= k =>
                    walk_cur = Ancestor(walk_path, k - walk_steps)
              /\ ~relative(walk_path) /\ walk_steps = k + 1 =>
                    walk_cur = None
              /\ walk_child # None =>
                    /\ walk_child.root = walk_path.root
                    /\ Len(walk_child.path) = k + 1
                    /\ SubSeq(walk_child.path, 1, k) = walk_path.path
                    /\ walk_child.path[k + 1] \in Segments
              /\ walk_back # None /\ relative(walk_path) =>
                    walk_back.value = None
              /\ walk_back # None /\ ~relative(walk_path) =>
                    /\ walk_back.value # None
                    /\ walk_back.value.root = walk_path.root
                    /\ walk_back.value.path = walk_path.path)
    /\ ChildKeepsReceiver

\* from an absolute path of two segments parent() was called three times,
\* and the parent of a child of that path was taken
C21_Witness ==
    /\ walk_path # None
    /\ ~relative(walk_path)
    /\ Len(walk_path.path) = 2
    /\ walk_steps = 3
    /\ walk_cur = None
    /\ walk_back # None
    /\ walk_back.value = walk_path

(***************************************************************************)
(* process_stream as a loop.  A stream is a record: the bytes it holds,    *)
(* how many of them were read, and whether close() was called on it.       *)
(* read() and on_chunk() are the two calls of the loop that can raise; the *)
(* error leaves process_stream at once, there being no try block.          *)
(***************************************************************************)
MkStream(content) == [content |-> content, pos |-> 0, closed |-> FALSE]

\* fd.read(chunk_size): the next chunk_size bytes, fewer at the end
stream_read(fd, chunk_size) ==
    SubSeq(fd.content, fd.pos + 1,
           fd.pos + Min(chunk_size, Len(fd.content) - fd.pos))

\* the loop body with on_chunk called before hasher.update
loop_body_call_first(chunk, inline_data, hasher, length, calls) ==
    LET len == length + Len(chunk)
    IN  [length |-> len,
         hasher |-> HasherUpdate(hasher, chunk),
         calls |-> Append(calls, [chunk |-> chunk, hashed |-> Len(hasher)]),
         inline_data |-> IF len <= inline_max_bytes
                         THEN inline_data \o chunk
                         ELSE inline_data]

\* the body of the while loop once a chunk was read and found non-empty
loop_body(chunk, inline_data, hasher, length, calls) ==
    LET len == length + Len(chunk)
        h == HasherUpdate(hasher, chunk)
    IN  [length |-> len,
         hasher |-> h,
         calls |-> Append(calls, [chunk |-> chunk, hashed |-> Len(h)]),
         inline_data |-> IF len <= inline_max_bytes
                         THEN inline_data \o chunk
                         ELSE inline_data]

\* a return statement that hands out inline_data whatever the length
stream_result_any_length(hasher, length, inline_data) ==
    <<HasherDigest(hasher), inline_data>>

\* the return statement of process_stream
stream_result(hasher, length, inline_data) ==
    <<HasherDigest(hasher),
      IF length > inline_max_bytes THEN NoBytes ELSE inline_data>>

\* contents of the streams: one per length tried
StreamContents == {Sample(n, 0, 1) : n \in SampleLens}

\* values of chunk_size
ChunkSizes ==
    {1, 3, 16, inline_max_bytes, inline_max_bytes + 1, DefaultChunkSize}

\* an iteration that reads a non-empty chunk and completes
Iterate ==
    /\ ps_pc = "loop"
    /\ LET chunk == stream_read(ps_fd, ps_chunk_size)
           b == loop_body(chunk, ps_inline, ps_hasher, ps_length, ps_calls)
       IN  /\ Len(chunk) > 0
           /\ ps_fd' = [ps_fd EXCEPT !.pos = @ + Len(chunk)]
           /\ ps_reads' = Append(ps_reads, chunk)
           /\ ps_length' = b.length
           /\ ps_hasher' = b.hasher
           /\ ps_calls' = b.calls
           /\ ps_inline' = b.inline_data
    /\ UNCHANGED <<ps_chunk_size, ps_pc, ps_ret>>

\* the iteration that reads an empty chunk: break, fd.close(), return
Eof ==
    /\ ps_pc = "loop"
    /\ LET chunk == stream_read(ps_fd, ps_chunk_size)
       IN  /\ Len(chunk) <= 0
           /\ ps_reads' = Append(ps_reads, chunk)
    /\ ps_fd' = [ps_fd EXCEPT !.closed = TRUE]
    /\ ps_ret' = stream_result(ps_hasher, ps_length, ps_inline)
    /\ ps_pc' = "returned"
    /\ UNCHANGED <<ps_chunk_size, ps_inline, ps_hasher, ps_length, ps_calls>>

\* an iteration in which fd.read raises
ReadRaises ==
    /\ ps_pc = "loop"
    /\ ps_pc' = "raised"
    /\ UNCHANGED <<ps_fd, ps_chunk_size, ps_inline, ps_hasher, ps_length,
                   ps_reads, ps_calls, ps_ret>>

\* an iteration in which on_chunk raises
OnChunkRaises ==
    /\ ps_pc = "loop"
    /\ LET chunk == stream_read(ps_fd, ps_chunk_size)
           b == loop_body(chunk, ps_inline, ps_hasher, ps_length, ps_calls)
       IN  /\ Len(chunk) > 0
           /\ ps_fd' = [ps_fd EXCEPT !.pos = @ + Len(chunk)]
           /\ ps_reads' = Append(ps_reads, chunk)
           /\ ps_length' = b.length
           /\ ps_hasher' = b.hasher
           /\ ps_calls' = b.calls
    /\ ps_pc' = "raised"
    /\ UNCHANGED <<ps_chunk_size, ps_inline, ps_ret>>

InitStreamVars ==
    /\ ps_fd \in {MkStream(c) : c \in StreamContents}
    /\ ps_chunk_size \in ChunkSizes
    /\ ps_inline = <<>>
    /\ ps_hasher = Hasher(NoBytes)
    /\ ps_length = 0
    /\ ps_reads = <<>>
    /\ ps_calls = <<>>
    /\ ps_pc = "loop"
    /\ ps_ret = None

InitStream ==
    IdleEarlyVars /\ IdleWalkVars /\ InitStreamVars /\ IdleSshaVars
        /\ IdleSessVars /\ IdleCacheVars

NextStream ==
    \/ Iterate /\ UNCHANGED <<earlyVars, walkVars, sshaVars, sessVars,
                              cacheVars>>
    \/ Eof /\ UNCHANGED <<earlyVars, walkVars, sshaVars, sessVars, cacheVars>>
    \/ ReadRaises /\ UNCHANGED <<earlyVars, walkVars, sshaVars, sessVars,
                                 cacheVars>>
    \/ OnChunkRaises /\ UNCHANGED <<earlyVars, walkVars, sshaVars, sessVars,
                                    cacheVars>>

SpecStream == InitStream /\ [][NextStream]_vars

(***************************************************************************)
(* Claims about process_stream, checked under SpecStream.                  *)
(***************************************************************************)
\* C22: a stream handed to process_stream is closed on every exit path:
\* after normal EOF, and also when reading the stream or the on_chunk
\* callback raises an error part-way through.
C22_StreamClosed == ps_pc \in {"returned", "raised"} => ps_fd.closed

\* C25: the inline capture of process_stream does not depend on how the
\* stream is chunked: for every content and every chunk_size >= 1, the
\* returned inline_data is present and equal to the entire content iff the
\* total length is <= 32 bytes, and is absent otherwise (never a truncated
\* prefix); the returned digest is the digest of the whole content.
C25_InlineCapture ==
    ps_pc = "returned" =>
        /\ ps_chunk_size >= 1
        /\ ps_ret[1] = Sha256(ps_fd.content)
        /\ Len(ps_fd.content) <= 32 => ps_ret[2] = ps_fd.content
        /\ Len(ps_fd.content) > 32 => ps_ret[2] = NoBytes

\* a stream of 33 bytes was read to its end in chunks of 3 bytes, the last
\* chunk being the one that takes the length past 32
C25_Witness ==
    /\ ps_pc = "returned"
    /\ Len(ps_fd.content) = 33
    /\ ps_chunk_size = 3
    /\ Len(ps_reads) = 12
    /\ Len(ps_inline) = 30
    /\ ps_ret[2] = NoBytes

\* the chunks of cs[1..n] one after the other
RECURSIVE Joined(_, _)
Joined(cs, n) == IF n = 0 THEN <<>> ELSE Joined(cs, n - 1) \o cs[n].chunk

\* C26: process_stream invokes on_chunk exactly once for every non-empty
\* chunk read, in read order and after the hasher has consumed that chunk,
\* never with an empty chunk and never after EOF, so that the concatenation
\* of the chunks passed to on_chunk equals the whole stream content.
C26_OnChunk ==
    /\ ps_pc # "idle" =>
        LET nonempty == {i \in 1..Len(ps_reads) : Len(ps_reads[i]) > 0}
        IN  /\ Len(ps_calls) = Cardinality(nonempty)
            /\ nonempty = 1..Len(ps_calls)
            /\ \A i \in 1..Len(ps_calls) :
                  /\ ps_calls[i].chunk = ps_reads[i]
                  /\ Len(ps_calls[i].chunk) > 0
                  /\ ps_calls[i].hashed = Len(Joined(ps_calls, i))
            /\ Len(ps_reads) > Len(ps_calls) =>
                  /\ Len(ps_reads) = Len(ps_calls) + 1
                  /\ ps_pc = "returned"
            /\ Joined(ps_calls, Len(ps_calls))
                  = SubSeq(ps_fd.content, 1, ps_fd.pos)
            /\ ps_pc = "returned" =>
                  Joined(ps_calls, Len(ps_calls)) = ps_fd.content

\* a stream of 34 bytes was read to its end in chunks of 16 bytes: on_chunk
\* was called three times, the last time with 2 bytes
C26_Witness ==
    /\ ps_pc = "returned"
    /\ Len(ps_fd.content) = 34
    /\ ps_chunk_size = 16
    /\ Len(ps_calls) = 3
    /\ Len(ps_calls[3].chunk) = 2
    /\ Len(ps_reads) = 4

(***************************************************************************)
(* SaltedSha.  base64 is Python's: b64decode without validate skips the    *)
(* characters outside its alphabet, stops at a complete run of "=" and     *)
(* raises when the data characters left do not fill their last group.      *)
(***************************************************************************)
\* the characters "+", "=", "{" and "}"
Plus == 76
Equals == 77
LBrace == 78
RBrace == 79

\* _SSHA_MARK = '{SSHA}'
SSHA_MARK == <<LBrace, 54, 54, 43, 36, RBrace>>

\* the value of a character in the alphabet "A-Za-z0-9+/", -1 outside it
B64Value(ch) ==
    CASE ch \in 36..61 -> ch - 36
      [] ch \in 10..35 -> ch + 16
      [] ch \in 0..9 -> ch + 52
      [] ch = Plus -> 62
      [] ch = Slash -> 63
      [] OTHER -> -1

B64Char(v) ==
    CASE v \in 0..25 -> v + 36
      [] v \in 26..51 -> v - 16
      [] v \in 52..61 -> v - 52
      [] v = 62 -> Plus
      [] v = 63 -> Slash

\* base64.b64encode: 4 characters for every 3 bytes, "=" where the last
\* group has no byte
b64encode(b) ==
    LET n == Len(b)
        byte(i) == IF i <= n THEN b[i] ELSE 0
    IN  [k \in 1..(4 * ((n + 2) \div 3)) |->
            LET j == (k - 1) \div 4
                b0 == byte(3 * j + 1)
                b1 == byte(3 * j + 2)
                b2 == byte(3 * j + 3)
            IN  CASE (k - 1) % 4 = 0 -> B64Char(b0 \div 4)
                  [] (k - 1) % 4 = 1 -> B64Char((b0 % 4) * 16 + b1 \div 16)
                  [] (k - 1) % 4 = 2 ->
                        IF 3 * j + 2 > n
                        THEN Equals
                        ELSE B64Char((b1 % 16) * 4 + b2 \div 64)
                  [] (k - 1) % 4 = 3 ->
                        IF 3 * j + 3 > n THEN Equals ELSE B64Char(b2 % 64)]

IsB64Data(ch) == B64Value(ch) >= 0

\* base64.b64decode(s): the bytes, RaisedBytes when it raises binascii.Error
b64decode(s) ==
    LET \* position in the group of 4 when s[i] is met
        quad_pos(i) == Len(SelectSeq(SubSeq(s, 1, i - 1), IsB64Data)) % 4
        \* "=" met since the last data character, s[i] included
        pads(i) ==
            Cardinality({j \in 1..i :
                /\ s[j] = Equals
                /\ \A m \in j..i : ~IsB64Data(s[m])})
        stops == {i \in 1..Len(s) :
                    /\ s[i] = Equals
                    /\ quad_pos(i) >= 2
                    /\ quad_pos(i) + pads(i) >= 4}
        end == IF stops = {}
               THEN Len(s)
               ELSE (CHOOSE i \in stops : \A j \in stops : i <= j) - 1
        data == SelectSeq(SubSeq(s, 1, end), IsB64Data)
        m == Len(data)
        v(i) == B64Value(data[i])
    IN  IF stops = {} /\ m % 4 # 0
        THEN RaisedBytes
        ELSE [k \in 1..(3 * (m \div 4)
                          + (IF m % 4 = 0 THEN 0 ELSE (m % 4) - 1)) |->
                LET j == (k - 1) \div 3
                IN  CASE (k - 1) % 3 = 0 ->
                            v(4 * j + 1) * 4 + v(4 * j + 2) \div 16
                      [] (k - 1) % 3 = 1 ->
                            (v(4 * j + 2) % 16) * 16 + v(4 * j + 3) \div 4
                      [] (k - 1) % 3 = 2 ->
                            (v(4 * j + 3) % 4) * 64 + v(4 * j + 4)]

\* SaltedSha(None, _digest=digest, _salt=salt)
MkSaltedSha(digest, salt) == [digest |-> digest, salt |-> salt]

\* SaltedSha(s)
SaltedShaFromString(s) ==
    LET len_of_mark == Len(SSHA_MARK)
    IN  IF SSHA_MARK = SubSeq(s, 1, Min(len_of_mark, Len(s)))
        THEN LET challenge_bytes ==
                    b64decode(SubSeq(s, len_of_mark + 1, Len(s)))
             IN  IF challenge_bytes = RaisedBytes
                 THEN Raised
                 ELSE MkSaltedSha(
                        SubSeq(challenge_bytes, 1,
                               Min(20, Len(challenge_bytes))),
                        SubSeq(challenge_bytes, 21, Len(challenge_bytes)))
        ELSE Raised

\* SaltedSha.__str__
SaltedShaStr(x) == SSHA_MARK \o b64encode(x.digest \o x.salt)

(***************************************************************************)
(* The SaltedSha state machine: a string is parsed and the result rendered *)
(***************************************************************************)
\* payloads: two of each length; 24 is the length of digest + salt
SshaPayloads ==
    {Sample(n, 0, b) : n \in {0, 3, 20, 23, 24, 25, 27}, b \in {1, 97}}

\* "{SSHA}", "{ssha}", "SSHA", "{SSHA" and nothing
SshaMarks ==
    {SSHA_MARK, <<LBrace, 28, 28, 17, 10, RBrace>>, <<54, 54, 43, 36>>,
     SubSeq(SSHA_MARK, 1, 5), <<>>}

\* the mark and the base64 text of a payload; the text of a 24-byte payload
\* with a space in it, with a "=" after it, and without its last character
SshaStrings ==
    {m \o b64encode(p) : m \in SshaMarks, p \in SshaPayloads}
        \cup UNION {LET t == b64encode(p)
                    IN  {SSHA_MARK \o SubSeq(t, 1, 8) \o <<Space>>
                            \o SubSeq(t, 9, Len(t)),
                         SSHA_MARK \o t \o <<Equals>>,
                         SSHA_MARK \o SubSeq(t, 1, Len(t) - 1)} :
                    p \in {q \in SshaPayloads : Len(q) = 24}}

\* SaltedSha(ssha_src)
NewSaltedSha ==
    /\ ssha = None
    /\ ssha' = SaltedShaFromString(ssha_src)
    /\ UNCHANGED <<ssha_src, ssha_str>>

\* str(ssha)
SaltedShaToStr ==
    /\ ssha \notin {None, Raised}
    /\ ssha_str = NoBytes
    /\ ssha_str' = SaltedShaStr(ssha)
    /\ UNCHANGED <<ssha_src, ssha>>

InitSshaVars ==
    /\ ssha_src \in SshaStrings
    /\ ssha = None
    /\ ssha_str = NoBytes

InitSsha ==
    IdleEarlyVars /\ IdleWalkVars /\ IdleStreamVars /\ InitSshaVars
        /\ IdleSessVars /\ IdleCacheVars

NextSsha ==
    \/ NewSaltedSha
          /\ UNCHANGED <<earlyVars, walkVars, streamVars, sessVars, cacheVars>>
    \/ SaltedShaToStr
          /\ UNCHANGED <<earlyVars, walkVars, streamVars, sessVars, cacheVars>>

SpecSsha == InitSsha /\ [][NextSsha]_vars

(***************************************************************************)
(* Claims about SaltedSha, checked under SpecSsha.                         *)
(***************************************************************************)
\* C23: parsing a SaltedSha string succeeds only when the string starts
\* with the exact prefix "{SSHA}" and its base64 payload decodes to exactly
\* 24 bytes (20-byte digest followed by 4-byte salt); any other input
\* fails, and for every accepted string s, str(SaltedSha(s)) == s.
C23_SaltedShaParse ==
    /\ ssha \notin {None, Raised} =>
          /\ Len(ssha_src) >= 6
          /\ SubSeq(ssha_src, 1, 6) = SSHA_MARK
          /\ Len(ssha.digest) = 20
          /\ Len(ssha.salt) = 4
    /\ ssha_str # NoBytes => ssha_str = ssha_src

(***************************************************************************)
(* The caches of a CakeRack: one rack, changed by __setitem__, __delitem__ *)
(* and parse, and read between the changes by its six cached accessors.    *)
(***************************************************************************)
\* mutations made on the rack
MaxCacheOps == 3

\* strings handed to parse: a rack of one Cake, a rack of a null and a Cake
CacheStrings ==
    {RackStr(<<<<1, c>>>>) : c \in RackCakes}
        \cup {RackStr(<<<<2, None>>, <<1, c>>>>) : c \in RackCakes}

\* cakes[k] = v
CacheSetItem ==
    /\ cache_ops < MaxCacheOps
    /\ \E k \in RackNames, v \in RackCakes \cup {None} :
          cache_rack' = rack_setitem(cache_rack, k, v)
    /\ cache_ret' = None
    /\ cache_ops' = cache_ops + 1

\* del cakes[k]
CacheDelItem ==
    /\ cache_ops < MaxCacheOps
    /\ \E k \in RackNames : cache_rack' = rack_delitem(cache_rack, k)
    /\ cache_ret' = None
    /\ cache_ops' = cache_ops + 1

\* cakes.parse(o)
CacheParse ==
    /\ cache_ops < MaxCacheOps
    /\ \E o \in CacheStrings : cache_rack' = rack_parse(cache_rack, o)
    /\ cache_ret' = None
    /\ cache_ops' = cache_ops + 1

\* cakes.content()
CacheContent ==
    /\ cache_rack' = rack_content(cache_rack)
    /\ cache_ret' = [op |-> "content", value |-> cache_rack'.c_content]
    /\ UNCHANGED cache_ops

\* cakes.in_bytes()
CacheInBytes ==
    /\ cache_rack' = rack_in_bytes(cache_rack)
    /\ cache_ret' = [op |-> "in_bytes", value |-> cache_rack'.c_in_bytes]
    /\ UNCHANGED cache_ops

\* cakes.size()
CacheSize ==
    /\ cache_rack' = rack_size(cache_rack)
    /\ cache_ret' = [op |-> "size", value |-> cache_rack'.c_size]
    /\ UNCHANGED cache_ops

\* cakes.cake()
CacheCake ==
    /\ cache_rack' = rack_cake(cache_rack)
    /\ cache_ret' = [op |-> "cake", value |-> cache_rack'.c_cake]
    /\ UNCHANGED cache_ops

\* cakes.is_defined()
CacheIsDefined ==
    /\ cache_rack' = rack_is_defined(cache_rack)
    /\ cache_ret' =
          [op |-> "is_defined", value |-> cache_rack'.c_defined.value]
    /\ UNCHANGED cache_ops

\* cakes.inverse()
CacheInverse ==
    /\ cache_rack' = rack_inverse(cache_rack)
    /\ cache_ret' = [op |-> "inverse", value |-> cache_rack'.c_inverse.value]
    /\ UNCHANGED cache_ops

InitCacheVars ==
    /\ cache_rack = MkRack(<<>>)
    /\ cache_ret = None
    /\ cache_ops = 0

InitCache ==
    IdleEarlyVars /\ IdleWalkVars /\ IdleStreamVars /\ IdleSshaVars
        /\ IdleSessVars /\ InitCacheVars

notCacheVars == <<earlyVars, walkVars, streamVars, sshaVars, sessVars>>

NextCache ==
    \/ CacheSetItem /\ UNCHANGED notCacheVars
    \/ CacheDelItem /\ UNCHANGED notCacheVars
    \/ CacheParse /\ UNCHANGED notCacheVars
    \/ CacheContent /\ UNCHANGED notCacheVars
    \/ CacheInBytes /\ UNCHANGED notCacheVars
    \/ CacheSize /\ UNCHANGED notCacheVars
    \/ CacheCake /\ UNCHANGED notCacheVars
    \/ CacheIsDefined /\ UNCHANGED notCacheVars
    \/ CacheInverse /\ UNCHANGED notCacheVars

SpecCache == InitCache /\ [][NextCache]_vars

(***************************************************************************)
(* Claims about the caches of CakeRack, checked under SpecCache.           *)
(***************************************************************************)
\* what each accessor computes on a rack that holds `store` and no cache
Computed(store) ==
    LET bytes == ensure_bytes(RackStr(store))
    IN  [content |-> RackStr(store),
         in_bytes |-> bytes,
         size |-> Len(bytes),
         cake |-> from_digest_and_inline_data(
                      HasherDigest(Hasher(bytes)), bytes, "NEURON"),
         is_defined |-> ~\E i \in 1..Len(store) : store[i][2] = None,
         inverse |->
            [v \in {store[i][2] : i \in 1..Len(store)} |->
                LET last == CHOOSE i \in 1..Len(store) :
                               /\ store[i][2] = v
                               /\ \A j \in 1..Len(store) :
                                     store[j][2] = v => j <= i
                IN  store[last][1]]]

\* C24: CakeRack caches are never stale: after any sequence of __setitem__,
\* __delitem__ and parse calls interleaved in any order with calls of
\* content(), in_bytes(), size(), cake(), is_defined() and inverse(), each
\* of these returns exactly the value that would be computed from the
\* current store (is_defined() is true iff no stored value is null).
C24_CachesFresh ==
    LET now == Computed(cache_rack.store)
        r == cache_rack
    IN  /\ cache_ret # None =>
              cache_ret.value =
                  CASE cache_ret.op = "content" -> now.content
                    [] cache_ret.op = "in_bytes" -> now.in_bytes
                    [] cache_ret.op = "size" -> now.size
                    [] cache_ret.op = "cake" -> now.cake
                    [] cache_ret.op = "is_defined" -> now.is_defined
                    [] cache_ret.op = "inverse" -> now.inverse
        /\ r.c_content # NoBytes => r.c_content = now.content
        /\ r.c_in_bytes # NoBytes => r.c_in_bytes = now.in_bytes
        /\ r.c_size # -1 => r.c_size = now.size
        /\ r.c_cake # None => r.c_cake = now.cake
        /\ r.c_defined # None => r.c_defined.value = now.is_defined
        /\ r.c_inverse # None => r.c_inverse.value = now.inverse

\* after three mutations the rack holds two names, one of them with a
\* null; since the last mutation cake() and inverse() were answered, and
\* then is_defined(), with false
C24_Witness ==
    /\ cache_ops = 3
    /\ Len(cache_rack.store) = 2
    /\ \E i \in 1..2 : cache_rack.store[i][2] = None
    /\ cache_ret # None
    /\ cache_ret.op = "is_defined"
    /\ cache_ret.value = FALSE
    /\ cache_rack.c_cake # None
    /\ cache_rack.c_inverse # None

(***************************************************************************)
(* Cake.shard_num                                                          *)
(***************************************************************************)
\* Cake.shard_num with the single byte reduced like the others
cake_shard_num_reduced(c, base) ==
    LET l == Len(c.data)
    IN  IF l >= 2
        THEN shard_num(c.data, base)
        ELSE IF l = 1 THEN c.data[1] % base ELSE 0

\* Cake.shard_num
cake_shard_num(c, base) ==
    LET l == Len(c.data)
    IN  IF l >= 2
        THEN shard_num(c.data, base)
        ELSE IF l = 1 THEN c.data[1] ELSE 0

\* Cake.shard_name
cake_shard_name(c, base) == shard_name_int(cake_shard_num(c, base))

\* values of base
ShardBases == {1, 2, 97, 256, 8000, MAX_NUM_OF_SHARDS}

\* recv.shard_num(base), recv.shard_name(base)
CakeShardNum ==
    /\ call.op = "none"
    /\ \E base \in ShardBases :
          /\ call' = [op |-> "shard_num", base |-> base]
          /\ ret' = [num |-> cake_shard_num(recv, base),
                     name |-> cake_shard_name(recv, base)]
    /\ UNCHANGED recv

NextShardNum ==
    \/ CakeShardNum
          /\ UNCHANGED <<lateVars, mergeVars, resolveVars, cakeVars,
                         addrVars, shardVars, rackVars, pathVars>>

SpecShardNum == InitOps /\ [][NextShardNum]_vars

(***************************************************************************)
(* Claims about Cake.shard_num, checked under SpecShardNum.                *)
(***************************************************************************)
\* C27 as stated: for every Cake and every base in 1..8192,
\* Cake.shard_num(base) is a shard id in [0, base): (data[0]*256 + data[1])
\* mod base for payloads of 2 or more bytes, and the fallback values for
\* INLINE payloads of 1 byte (data[0]) and 0 bytes (0) also stay below base.
C27_ShardNumAsStated ==
    call.op = "shard_num" =>
        /\ call.base \in 1..8192
        /\ ret.num >= 0 /\ ret.num < call.base
        /\ Len(recv.data) >= 2 =>
              ret.num = (recv.data[1] * 256 + recv.data[2]) % call.base
        /\ Len(recv.data) = 1 => ret.num = recv.data[1]
        /\ Len(recv.data) = 0 => ret.num = 0

\* C27 amended: for every Cake and every base in 1..8192,
\* Cake.shard_num(base) is (data[0]*256 + data[1]) mod base, a shard id in
\* [0, base), for payloads of 2 or more bytes, and 0 for the empty INLINE
\* payload; for an INLINE payload of 1 byte it is data[0] itself, not
\* reduced, which is below 256 and is below base exactly when
\* base > data[0].
C27_ShardNumAmended ==
    call.op = "shard_num" =>
        /\ call.base \in 1..8192
        /\ Len(recv.data) >= 2 =>
              /\ ret.num = (recv.data[1] * 256 + recv.data[2]) % call.base
              /\ ret.num >= 0 /\ ret.num < call.base
        /\ Len(recv.data) = 1 =>
              /\ recv.type = "INLINE"
              /\ ret.num = recv.data[1]
              /\ ret.num >= 0 /\ ret.num < 256
              /\ ret.num < call.base <=> call.base > recv.data[1]
        /\ Len(recv.data) = 0 =>
              /\ recv.type = "INLINE"
              /\ ret.num = 0

\* shard_num(97) of the INLINE Cake of the one byte 97 returned 97
C27_Witness ==
    /\ call.op = "shard_num"
    /\ call.base = 97
    /\ recv.type = "INLINE"
    /\ recv.data = <<97>>
    /\ ret.num = 97

(***************************************************************************)
(* HashSession.  Every call of threading.local() creates a new thread-     *)
(* local object, which holds no attribute on any thread; the object lives  *)
(* in a local variable or in no variable at all and is out of reach once   *)
(* the method returns.                                                     *)
(***************************************************************************)
\* local objects the model lets the calls create
MaxLocals == 4

Threads == {1, 2}

\* two HashSession objects
Sessions == {[session |-> 1], [session |-> 2]}

\* an attribute that was never set
Unset == [type |-> "Unset"]

\* threading.local()
NewLocal == [t \in Threads |-> Unset]

\* HashSession.set(ctx) called on thread t: the local objects after it
session_set(locals, t, ctx) ==
    Append(locals, [NewLocal EXCEPT ![t] = ctx])

\* HashSession.get() called on thread t: <<the local objects after it, what
\* it returns>>; reading hash_ctx of the new object raises AttributeError
session_get(locals, t) ==
    LET l == NewLocal
    IN  <<Append(locals, l), IF l[t] = Unset THEN Raised ELSE Ref(l[t], TRUE)>>

\* HashSession.close() called on thread t: <<the local objects after it,
\* the sessions it called close() on>>
session_close(locals, t) ==
    LET l == NewLocal
    IN  IF l[t] # Unset
        THEN <<Append(locals, [l EXCEPT ![t] = None]), {l[t]}>>
        ELSE <<Append(locals, l), {}>>

\* HashSession.set(s) on thread t
SessionSet ==
    /\ Len(sess_locals) < MaxLocals
    /\ \E t \in Threads, s \in Sessions :
          /\ sess_locals' = session_set(sess_locals, t, s)
          /\ sess_last' = [sess_last EXCEPT ![t] = [op |-> "set", ctx |-> s]]
          /\ sess_ret' = [sess_ret EXCEPT ![t] = None]
    /\ UNCHANGED sess_closed

\* HashSession.get() on thread t
SessionGet ==
    /\ Len(sess_locals) < MaxLocals
    /\ \E t \in Threads :
          LET r == session_get(sess_locals, t)
          IN  /\ sess_locals' = r[1]
              /\ sess_ret' = [sess_ret EXCEPT ![t] = r[2]]
    /\ UNCHANGED <<sess_last, sess_closed>>

\* HashSession.close() on thread t
SessionClose ==
    /\ Len(sess_locals) < MaxLocals
    /\ \E t \in Threads :
          LET r == session_close(sess_locals, t)
          IN  /\ sess_locals' = r[1]
              /\ sess_closed' = sess_closed \cup r[2]
              /\ sess_last' =
                    [sess_last EXCEPT
                        ![t] = [op |-> "close", ctx |-> sess_last[t].ctx]]
              /\ sess_ret' = [sess_ret EXCEPT ![t] = None]

InitSessVars ==
    /\ sess_locals = <<>>
    /\ sess_last = [t \in Threads |-> [op |-> "none", ctx |-> None]]
    /\ sess_ret = [t \in Threads |-> None]
    /\ sess_closed = {}

InitSess ==
    IdleEarlyVars /\ IdleWalkVars /\ IdleStreamVars /\ IdleSshaVars
        /\ InitSessVars /\ IdleCacheVars

notSessVars == <<earlyVars, walkVars, streamVars, sshaVars, cacheVars>>

NextSess ==
    \/ SessionSet /\ UNCHANGED notSessVars
    \/ SessionGet /\ UNCHANGED notSessVars
    \/ SessionClose /\ UNCHANGED notSessVars

SpecSess == InitSess /\ [][NextSess]_vars

(***************************************************************************)
(* Claims about HashSession, checked under SpecSess.                       *)
(***************************************************************************)
\* C28: the ambient session slot is per thread: after HashSession.set(s) on
\* a thread, HashSession.get() on that same thread returns s until close()
\* is called; close() calls close on the stored session and leaves the slot
\* blank; and a set or close on one thread never changes what get() returns
\* on another thread.
C28_SessionSlot ==
    \A t \in Threads :
        /\ sess_last[t].op = "set" /\ sess_ret[t] # None =>
              /\ sess_ret[t] # Raised
              /\ sess_ret[t].value = sess_last[t].ctx
        /\ sess_last[t].op = "close" /\ sess_last[t].ctx # None =>
              /\ sess_last[t].ctx \in sess_closed
              /\ sess_ret[t] # None =>
                    sess_ret[t] # Raised /\ sess_ret[t].value = None

====
